---- MODULE Spec2Model ----
(***************************************************************************)
(* Harvia Fenix cloud client: the REST client with its token manager       *)
(* (api.py, HarviaSaunaAPI) and the polling coordinator (coordinator.py,   *)
(* HarviaFenixCoordinator).                                                *)
(*                                                                         *)
(* The client runs on one asyncio event loop: a coroutine runs alone until *)
(* it awaits something that suspends it (an HTTP request, a held lock).    *)
(* `running` names the task that is inside such a synchronous stretch;     *)
(* another task takes a step only when running = NoTask.                   *)
(***************************************************************************)
EXTENDS Integers, Sequences, FiniteSets, TLC

\* ------------------------------------------------------------------ bounds
NumTasks == 2          \* concurrent callers of one client instance
MaxTime == 120         \* the clock stops advancing here (seconds)
TickStep == 60         \* seconds per clock step
MaxTokens == 2         \* token responses the server issues with a new id token
ExpiresIn == 120       \* expiresIn (seconds) the server puts in a token response
MaxCycles == 3         \* refresh cycles of the coordinator

\* ------------------------------------------------------- program constants
ExpirySkew == 60       \* self._expiry_skew

Tasks == 1..NumTasks
NoTask == 0
None == 0              \* Python None / absent token (token values are 1..MaxTokens)

\* ------------------------------------------------------------ environment
\* HTTP statuses the server answers with; 0 stands for a timeout or a
\* connection failure (aiohttp raises instead of giving a response).
Timeout == 0
Statuses == {200, 401, 403, 500, Timeout}
\* Body texts of a data response: empty, a JSON document, and not JSON.
Bodies == {"", "A", "<html>"}
\* Shapes of a token response body (which members it carries).
PayloadShapes == {"full", "no_refresh", "no_id", "no_expiry"}
\* Discovery documents: RestApi is the set of services that sit directly under
\* endpoints.RestApi, env the set of services that sit one level deeper, under
\* an intermediate key of endpoints.RestApi (a per-environment wrapper).
Services == {"generics", "device", "data"}
NoDoc == [RestApi |-> {}, env |-> {}]
Direct(S) == [RestApi |-> S, env |-> {}]
Wrapped(S) == [RestApi |-> {}, env |-> S]
DiscoveryDocs == {Direct(Services), Direct({"generics", "device"}),
                  Direct({"generics", "data"}), Wrapped(Services)}
\* _load_endpoints, lines 115-127: generics and device are read by subscript
\* directly under endpoints.RestApi (a missing key raises), data by .get();
\* nothing below an intermediate key is looked at.
ResolveEndpoints(doc) ==
    IF ~({"generics", "device"} \subseteq doc.RestApi)
    THEN [ok |-> FALSE, generics |-> "", device |-> "", data |-> ""]
    ELSE [ok |-> TRUE, generics |-> "generics", device |-> "device",
          data |-> IF "data" \in doc.RestApi THEN "data" ELSE ""]
\* Operations a caller can start on the client.
Ops == {"async_init", "rest_call", "get_devices", "get_latest_data", "refresh_device_state",
        "_ensure_valid_token"}

VARIABLES
    \* HarviaSaunaAPI fields
    session,              \* self._session is not None
    endpoints_loaded,     \* self._endpoints_loaded
    rest_generics_base,   \* self._rest_generics_base ("" = None)
    rest_device_base,     \* self._rest_device_base
    rest_data_base,       \* self._rest_data_base
    tokens,               \* self._tokens: [id_token, access_token, refresh_token, expires_at]
    auth_lock,            \* self._auth_lock: the task holding it, or NoTask
    lock_waiters,         \* FIFO of tasks suspended in auth_lock.acquire()
    waited,               \* the token was refreshed while the task queued for the lock
    \* environment
    now,                  \* time.time()
    issued,               \* token serial numbers the server has handed out
    tlog,                 \* the last answer to a token request (observers only)
    running,              \* task inside a synchronous stretch, or NoTask
    \* one coroutine per task
    op,                   \* operation the task runs
    base,                 \* rest_call's base argument ("" = missing)
    pc,                   \* position in the code
    phase,                \* which frame called async_init: "op", "wrap", "rc", "ens"
    authctx,              \* which frame called _authenticate: "init" or "ens"
    attempt,              \* rest_call's loop variable
    force,                \* _ensure_valid_token's force argument
    result,               \* how the operation ended
    \* who calls, and the history of the running operation (observers only)
    callers,              \* tasks that start operations on the client
    observed,             \* whether h is recorded
    ended,                \* frame (phase) in which the task's last operation ended
    h,
    \* HarviaFenixCoordinator fields
    devices,              \* self._devices: ids of the device map
    states,               \* self._states: id -> state (0 = no entry)
    latest,               \* self._latest: id -> telemetry (0 = no entry)
    \* the coroutine of _async_update_data
    c_pc,                 \* "idle", "list_wait", "state_wait", "latest_wait"
    c_devices,            \* local `devices`: the fetched list
    c_i,                  \* position of `dev` in the list
    c_try,                \* position of `did` in try_ids
    new_states,           \* local new_states
    new_latest,           \* local new_latest
    c_result,             \* how the last cycle ended
    \* observers of the cycles
    cycle,                \* number of the running (or last) cycle
    devices_cycle,        \* cycle that assigned self._devices
    states_cycle,         \* cycle that assigned self._states and self._latest
    g,
    \* a profile entity (select.py, number.py) setting the active profile
    d_api,                \* the methods self.coordinator.api has
    d_entity,             \* which entity dispatches
    d_idx,                \* idx
    d_pc,                 \* "idle", "call" (awaiting the call), "done"
    d_calls,              \* the methods called so far, in order
    d_result,             \* "none", "ok", "error" (the call raised), "RuntimeError"
    \* payload functions: their input and what they returned
    dev_payload,          \* the parsed body of GET /devices
    dev_out,              \* what get_devices returned
    raw,                  \* obj of _extract_state
    normalized,           \* what _extract_state returned
    fn_done,              \* the function has run
    \* the re-authentication step of the config flow
    entry,                \* the config entry: its data, updates and reloads
    flow                  \* the flow: where the step is and what it returned

apiVars == <<session, endpoints_loaded, rest_generics_base, rest_device_base,
             rest_data_base, tokens, auth_lock, lock_waiters, waited, now, issued, tlog,
             running,
             op, base, pc, phase, authctx, attempt, force, result, callers, observed, ended, h>>

clientVars == <<session, endpoints_loaded, rest_generics_base, rest_device_base,
                rest_data_base, tokens>>
endpointVars == <<endpoints_loaded, rest_generics_base, rest_device_base, rest_data_base>>
lockVars == <<auth_lock, lock_waiters, waited, callers, observed, ended>>
frameVars == <<op, base, phase, authctx, attempt, force>>

\* dataclass HarviaTokens()
HarviaTokens == [id_token |-> None, access_token |-> None, refresh_token |-> None,
                 expires_at |-> None]

NoResult == [kind |-> "none", status |-> 0, value |-> ""]
Ok(v) == [kind |-> "ok", status |-> 0, value |-> v]
\* raise HarviaAuthError(...)
HarviaAuthError == [kind |-> "HarviaAuthError", status |-> 0, value |-> ""]
\* raise RuntimeError(f"... {status}: {text}")
RuntimeError(status, text) == [kind |-> "RuntimeError", status |-> status, value |-> text]
\* aiohttp.ClientError / asyncio.TimeoutError out of a request
TransportError == [kind |-> "TransportError", status |-> 0, value |-> ""]
\* json.JSONDecodeError out of json.loads
JSONDecodeError == [kind |-> "JSONDecodeError", status |-> 0, value |-> ""]

\* History of one operation, reset when it starts.
\*   ndata      data requests sent
\*   status0/1  status of the answer to the first / second data request (-1: none)
\*   text0/1    body text of the answer to the first / second data request
\*   authstatus status of the last answer to a login request (-1: none)
\*   nrefresh   calls of _refresh() in the current _ensure_valid_token
\*   refreshreq /auth/refresh requests sent in the current _ensure_valid_token
\*   authreq    /auth/token requests sent in the current _ensure_valid_token
\*   initauth   /auth/token requests sent by async_init inside the current _ensure_valid_token
\*   refreshok  the last _refresh() of the current _ensure_valid_token returned True
\*   force      force argument of the current _ensure_valid_token
\*   stale      _token_needs_refresh() as evaluated by the current _ensure_valid_token
\*   checked    the current _ensure_valid_token reached its force/stale test
\*   hadtoken   an id token was stored when the current _ensure_valid_token took the lock
\*   bearer     id token sent with the last data request
\*   bearer0    id token sent with the first data request
\*   doc        the discovery document of the last 2xx discovery answer
\*   timedout   the request that got no answer ("": none)
H0 == [ndata |-> 0, status0 |-> -1, status1 |-> -1, text0 |-> "", text1 |-> "",
       authstatus |-> -1,
       nrefresh |-> 0, refreshreq |-> 0, authreq |-> 0, initauth |-> 0,
       refreshok |-> FALSE, force |-> FALSE, stale |-> FALSE, checked |-> FALSE,
       hadtoken |-> FALSE, bearer |-> None, bearer0 |-> None,
       doc |-> NoDoc, timedout |-> ""]

\* The last answer to a token request of the running operation:
\*   kind       "login" (/auth/token), "refresh" (/auth/refresh), "" (none yet)
\*   status     its status (Timeout: no answer)
\*   shape      the shape of its body if the status is below 400, else ""
\*   serial     the serial number its tokens carry (0: none)
\*   prev       self._tokens when the answer arrived
\*   at         time.time() when the answer arrived
\*   callbacks  calls of a token listener made while handling the answer
T0 == [kind |-> "", status |-> -1, shape |-> "", serial |-> 0, prev |-> HarviaTokens,
       at |-> 0, callbacks |-> 0]
\* No log is kept.
NoLog == [T0 EXCEPT !.kind = "off"]

\* json.loads(text) if text else {}
ParseBody(text) == IF text = "" THEN "{}" ELSE text
IsJson(text) == text # "<html>"

\* Body of a 2xx token response of the given shape, carrying serial number n.
Payload(shape, n) ==
    [idToken      |-> IF shape = "no_id" THEN None ELSE n,
     accessToken  |-> IF shape = "no_id" THEN None ELSE n,
     refreshToken |-> IF shape = "no_refresh" THEN None ELSE n,
     expiresIn    |-> IF shape = "no_expiry" THEN None ELSE ExpiresIn]

\* Mutant: a payload without a refresh token always clears the stored one.
ApplyTokenPayload_AlwaysClear(tok, data, keep, t) ==
    [id_token      |-> IF data.idToken # None THEN data.idToken ELSE tok.id_token,
     access_token  |-> IF data.accessToken # None THEN data.accessToken ELSE tok.access_token,
     refresh_token |-> data.refreshToken,
     expires_at    |-> IF data.expiresIn # None THEN t + data.expiresIn ELSE tok.expires_at]

\* _apply_token_payload(data, keep_refresh_if_missing=keep) at time t
ApplyTokenPayload(tok, data, keep, t) ==
    [id_token      |-> IF data.idToken # None THEN data.idToken ELSE tok.id_token,
     access_token  |-> IF data.accessToken # None THEN data.accessToken ELSE tok.access_token,
     refresh_token |-> IF data.refreshToken # None THEN data.refreshToken
                       ELSE IF ~keep THEN None ELSE tok.refresh_token,
     expires_at    |-> IF data.expiresIn # None THEN t + data.expiresIn ELSE tok.expires_at]

\* Mutant: a token without a known expiry counts as stale.
TokenNeedsRefresh_UnknownIsStale(tok, t) ==
    IF tok.id_token = None THEN TRUE
    ELSE IF tok.expires_at = None THEN TRUE
    ELSE t >= tok.expires_at - ExpirySkew

\* Mutant: the expiry skew is left out.
TokenNeedsRefresh_NoSkew(tok, t) ==
    IF tok.id_token = None THEN TRUE
    ELSE IF tok.expires_at = None THEN FALSE
    ELSE t >= tok.expires_at

\* _token_needs_refresh() at time t
TokenNeedsRefresh(tok, t) ==
    IF tok.id_token = None THEN TRUE
    ELSE IF tok.expires_at = None THEN FALSE
    ELSE t >= tok.expires_at - ExpirySkew

\* Mutant: a rejected refresh raises the auth error.
RefreshDisposition_AuthRaises(status) ==
    IF status \in {401, 403} THEN "raise"
    ELSE IF status >= 400 THEN "false"
    ELSE "apply"

\* What _refresh does with an answered refresh request, lines 191-199:
\* return False, or apply the token payload ("raise": raise the auth error).
RefreshDisposition(status) ==
    IF status \in {401, 403} THEN "false"
    ELSE IF status >= 400 THEN "false"
    ELSE "apply"

\* Mutant: the endpoints are loaded by every async_init.
NeedsLoad_Always(loaded) == TRUE

\* async_init line 70: whether _load_endpoints() is called
NeedsLoad(loaded) == ~loaded

\* Mutant: _refresh() is called on every _ensure_valid_token.
NeedsRefreshCall_Always(f, tok, t) == TRUE

\* _ensure_valid_token line 236: whether _refresh() is called
NeedsRefreshCall(f, tok, t) == f \/ TokenNeedsRefresh(tok, t)

\* Mutant: _refresh sends its request without a refresh token too.
RefreshSkipped_Never(tok) == FALSE

\* _refresh lines 175-177: without a refresh token return False at once
RefreshSkipped(tok) == tok.refresh_token = None

\* Mutant: the retry does not force the token check.
ForceOnAttempt_Never(a) == FALSE

\* force argument rest_call passes to _ensure_valid_token on attempt a
ForceOnAttempt(a) == a = 1

\* Mutant: the 401/403 of the retry is raised as the API error.
RestCallDisposition_NoAuthError(status, a) ==
    IF status < 400 THEN "return"
    ELSE IF status \in {401, 403} /\ a = 0 THEN "retry"
    ELSE "api_error"

\* Mutant: any failed first attempt is retried.
RestCallDisposition_RetryAnyError(status, a) ==
    IF status < 400 THEN "return"
    ELSE IF a = 0 THEN "retry"
    ELSE IF status \in {401, 403} THEN "auth_error"
    ELSE "api_error"

\* Mutant: every failed response is raised as the auth error.
RestCallDisposition_AllAuthError(status, a) ==
    IF status < 400 THEN "return"
    ELSE IF status \in {401, 403} /\ a = 0 THEN "retry"
    ELSE "auth_error"

\* What rest_call does with a response of this status on attempt a:
\* "return" the parsed body, "retry" (continue), raise the auth error, raise the API error.
RestCallDisposition(status, a) ==
    IF status < 400 THEN "return"
    ELSE IF status \in {401, 403} /\ a = 0 THEN "retry"
    ELSE IF status \in {401, 403} THEN "auth_error"
    ELSE "api_error"

\* ------------------------------------------------------------------ helpers
\* The history and the outcome are recorded only when they are observed.
Note(hv) == h' = IF observed THEN hv ELSE h

\* The answer to a token request is logged; _authenticate (lines 164-169) and
\* _refresh (lines 199-201) call no listener after applying it.
Log(kind, status, shape) ==
    tlog' = IF tlog # NoLog
            THEN [kind |-> kind, status |-> status,
                  shape |-> IF status \in 1..399 THEN shape ELSE "",
                  serial |-> IF status \in 1..399 THEN issued + 1 ELSE 0,
                  prev |-> tokens, at |-> now, callbacks |-> 0]
            ELSE tlog

\* The coroutine of task t ends with outcome r (a return value or an exception):
\* its frame is gone, and leaving `async with self._auth_lock` by an exception
\* releases the lock if this task holds it.
Finish(t, r) ==
    /\ result' = IF observed THEN [result EXCEPT ![t] = r] ELSE result
    /\ pc' = [pc EXCEPT ![t] = "done"]
    /\ running' = NoTask
    /\ auth_lock' = IF auth_lock = t THEN NoTask ELSE auth_lock
    /\ op' = [op EXCEPT ![t] = "async_init"]
    /\ base' = [base EXCEPT ![t] = ""]
    /\ phase' = [phase EXCEPT ![t] = "op"]
    /\ authctx' = [authctx EXCEPT ![t] = "init"]
    /\ attempt' = [attempt EXCEPT ![t] = 0]
    /\ force' = [force EXCEPT ![t] = FALSE]
    /\ ended' = IF observed THEN [ended EXCEPT ![t] = phase[t]] ELSE ended
    /\ waited' = [waited EXCEPT ![t] = FALSE]
    /\ UNCHANGED <<lock_waiters, callers, observed>>

Raise(t, r) == Finish(t, r)

\* The coroutine goes on at label l, suspended there (an await) or not.
Goto(t, l, suspended) ==
    /\ pc' = [pc EXCEPT ![t] = l]
    /\ running' = IF suspended THEN NoTask ELSE t
    /\ UNCHANGED result

Resumable(t, l) == pc[t] = l /\ running = NoTask
Continuing(t, l) == pc[t] = l /\ running = t

\* --------------------------------------------------------------------- Init
\* HarviaSaunaAPI.__init__, lines 39-60, and no coroutine started yet.
ClientInit ==
    /\ session = FALSE
    /\ endpoints_loaded = FALSE
    /\ rest_generics_base = ""
    /\ rest_device_base = ""
    /\ rest_data_base = ""
    /\ tokens = HarviaTokens
    /\ auth_lock = NoTask
    /\ lock_waiters = <<>>
    /\ waited = [t \in Tasks |-> FALSE]
    /\ now = 0
    /\ issued = 0
    /\ running = NoTask
    /\ op = [t \in Tasks |-> "async_init"]
    /\ base = [t \in Tasks |-> ""]
    /\ pc = [t \in Tasks |-> "idle"]
    /\ phase = [t \in Tasks |-> "op"]
    /\ authctx = [t \in Tasks |-> "init"]
    /\ attempt = [t \in Tasks |-> 0]
    /\ force = [t \in Tasks |-> FALSE]
    /\ result = [t \in Tasks |-> NoResult]
    /\ ended = [t \in Tasks |-> "op"]
    /\ h = [t \in Tasks |-> H0]

\* ------------------------------------------------------------------ actions
\* A caller starts operation o (rest_call with base argument b,
\* _ensure_valid_token with force argument f).
StartOp(t, o, b, f) ==
    /\ t \in callers
    /\ pc[t] \in {"idle", "done"}
    /\ running = NoTask
    /\ op' = [op EXCEPT ![t] = o]
    /\ base' = [base EXCEPT ![t] = IF o = "rest_call" THEN b ELSE ""]
    /\ phase' = [phase EXCEPT ![t] = IF o = "async_init" THEN "op"
                                     ELSE IF o = "rest_call" THEN "rc"
                                     ELSE IF o = "_ensure_valid_token" THEN "ens"
                                     ELSE "wrap"]
    /\ attempt' = [attempt EXCEPT ![t] = 0]
    /\ force' = [force EXCEPT ![t] = o = "_ensure_valid_token" /\ f]
    /\ result' = [result EXCEPT ![t] = NoResult]
    /\ h' = [h EXCEPT ![t] = H0]
    /\ pc' = [pc EXCEPT ![t] = IF o = "_ensure_valid_token" THEN "ens_enter" ELSE "init"]
    /\ running' = t
    /\ tlog' = IF tlog = NoLog THEN NoLog ELSE T0
    /\ UNCHANGED <<clientVars, lockVars, now, issued, authctx>>

\* async_init, lines 66-71: create the session; load the endpoints if not loaded
\* (the discovery GET is sent and the coroutine suspends).
AsyncInit(t) ==
    /\ Continuing(t, "init")
    /\ session' = TRUE
    /\ Goto(t, IF NeedsLoad(endpoints_loaded) THEN "ld_wait" ELSE "init_chk",
               NeedsLoad(endpoints_loaded))
    /\ UNCHANGED <<endpointVars, tokens, lockVars, now, issued, tlog, frameVars, h>>

\* _load_endpoints, lines 109-129: the discovery response arrives.
LoadEndpoints(t, status, doc) ==
    /\ Resumable(t, "ld_wait")
    /\ IF status = Timeout
       THEN Raise(t, TransportError) /\ UNCHANGED endpointVars
       ELSE IF status >= 400
       THEN Raise(t, RuntimeError(status, "Failed to load endpoints")) /\ UNCHANGED endpointVars
       ELSE IF ~ResolveEndpoints(doc).ok
       THEN Raise(t, RuntimeError(0, "Endpoints parsing failed")) /\ UNCHANGED endpointVars
       ELSE /\ rest_generics_base' = ResolveEndpoints(doc).generics
            /\ rest_device_base' = ResolveEndpoints(doc).device
            /\ rest_data_base' = ResolveEndpoints(doc).data
            /\ endpoints_loaded' = TRUE
            /\ Goto(t, "init_chk", FALSE)
            /\ UNCHANGED <<lockVars, frameVars>>
    /\ Note([h EXCEPT ![t].doc = IF status \in 1..399 THEN doc ELSE @,
                      ![t].timedout = IF status = Timeout THEN "discovery" ELSE @])
    /\ UNCHANGED <<session, tokens, now, issued, tlog>>

\* async_init, lines 73-80: the bases must be set; without an id token the
\* login POST is sent (outside any lock unless the caller holds it).
InitCheck(t) ==
    /\ Continuing(t, "init_chk")
    /\ IF rest_generics_base = "" \/ rest_device_base = ""
       THEN Raise(t, RuntimeError(0, "Harvia endpoints not initialized")) /\ UNCHANGED h
       ELSE IF tokens.id_token = None
       THEN /\ Goto(t, "auth_wait", TRUE)
            /\ authctx' = [authctx EXCEPT ![t] = "init"]
            /\ Note([h EXCEPT ![t].initauth = IF phase[t] = "ens" THEN @ + 1 ELSE @])
            /\ UNCHANGED <<lockVars, op, base, phase, attempt, force>>
       ELSE /\ Goto(t, "init_tok", FALSE)
            /\ UNCHANGED <<lockVars, frameVars, h>>
    /\ UNCHANGED <<clientVars, now, issued, tlog>>

\* _authenticate, lines 156-164: the login response arrives.
Authenticate(t, status, shape) ==
    /\ Resumable(t, "auth_wait")
    /\ Note([h EXCEPT ![t].authstatus = status,
                      ![t].timedout = IF status = Timeout THEN "authenticate" ELSE @])
    /\ Log("login", status, shape)
    /\ IF status = Timeout
       THEN Raise(t, TransportError) /\ UNCHANGED <<tokens, issued>>
       ELSE IF status \in {401, 403}
       THEN Raise(t, HarviaAuthError) /\ UNCHANGED <<tokens, issued>>
       ELSE IF status >= 400
       THEN Raise(t, RuntimeError(status, "Auth failed")) /\ UNCHANGED <<tokens, issued>>
       ELSE /\ issued < MaxTokens
            /\ issued' = issued + 1
            /\ tokens' = ApplyTokenPayload(tokens, Payload(shape, issued + 1), FALSE, now)
            /\ Goto(t, IF authctx[t] = "init" THEN "init_tok" ELSE "ens_final", FALSE)
            /\ UNCHANGED <<lockVars, frameVars>>
    /\ UNCHANGED <<session, endpointVars, now>>

\* async_init, lines 82-83, and the return to whoever called it:
\* the operation itself, a wrapper (get_devices line 302, get_latest_data
\* lines 344-350, refresh_device_state line 461), rest_call (line 256) or
\* _ensure_valid_token (line 234).
InitReturn(t) ==
    /\ Continuing(t, "init_tok")
    /\ IF tokens.id_token = None
       THEN Raise(t, HarviaAuthError)
       ELSE IF phase[t] = "op"
       THEN Finish(t, Ok(""))
       ELSE IF phase[t] = "wrap"
       THEN IF op[t] = "get_latest_data" /\ rest_data_base = ""
            THEN Raise(t, RuntimeError(0, "Harvia data endpoint not available"))
            ELSE /\ base' = [base EXCEPT ![t] = IF op[t] = "get_latest_data"
                                                 THEN rest_data_base ELSE rest_device_base]
                 /\ phase' = [phase EXCEPT ![t] = "rc"]
                 /\ op' = [op EXCEPT ![t] = "rest_call"]
                 /\ Goto(t, "init", FALSE)
                 /\ UNCHANGED <<lockVars, authctx, attempt, force>>
       ELSE /\ Goto(t, IF phase[t] = "rc" THEN "rc_base" ELSE "ens_check", FALSE)
            /\ UNCHANGED <<lockVars, frameVars>>
    /\ UNCHANGED <<clientVars, now, issued, tlog, h>>

\* rest_call, lines 259-265: a missing base URL fails the call.
RestCallBase(t) ==
    /\ Continuing(t, "rc_base")
    /\ IF base[t] = ""
       THEN Raise(t, RuntimeError(0, "Harvia rest_call base URL is missing"))
       ELSE Goto(t, "rc_loop", FALSE) /\ UNCHANGED <<lockVars, frameVars>>
    /\ UNCHANGED <<clientVars, now, issued, tlog, h>>

\* rest_call lines 267-268: _ensure_valid_token is called, forced on the
\* second pass of the loop.
RestCallLoop(t) ==
    /\ Continuing(t, "rc_loop")
    /\ force' = [force EXCEPT ![t] = ForceOnAttempt(attempt[t])]
    /\ Goto(t, "ens_enter", FALSE)
    /\ UNCHANGED <<clientVars, lockVars, now, issued, tlog, op, base, phase, authctx, attempt, h>>

\* _ensure_valid_token line 233: enter the lock, or queue behind its holder.
EnsureValidToken(t) ==
    /\ Continuing(t, "ens_enter")
    /\ Note([h EXCEPT ![t].nrefresh = 0, ![t].refreshreq = 0, ![t].authreq = 0,
                      ![t].initauth = 0, ![t].refreshok = FALSE, ![t].checked = FALSE,
                      ![t].authstatus = -1,
                      ![t].stale = FALSE, ![t].force = force[t],
                      ![t].hadtoken = tokens.id_token # None])
    /\ IF auth_lock = NoTask /\ lock_waiters = <<>>
       THEN /\ auth_lock' = t
            /\ phase' = [phase EXCEPT ![t] = "ens"]
            /\ Goto(t, "init", FALSE)
            /\ UNCHANGED lock_waiters
       ELSE /\ lock_waiters' = Append(lock_waiters, t)
            /\ Goto(t, "lock_wait", TRUE)
            /\ UNCHANGED <<auth_lock, phase>>
    /\ UNCHANGED <<clientVars, waited, callers, observed, ended, now, issued, tlog, op, base, authctx,
                 attempt, force>>

\* asyncio.Lock hands the released lock to its first waiter.
LockAcquired(t) ==
    /\ Resumable(t, "lock_wait")
    /\ auth_lock = NoTask
    /\ lock_waiters # <<>> /\ Head(lock_waiters) = t
    /\ auth_lock' = t
    /\ lock_waiters' = Tail(lock_waiters)
    /\ phase' = [phase EXCEPT ![t] = "ens"]
    /\ Note([h EXCEPT ![t].hadtoken = tokens.id_token # None])
    /\ Goto(t, "init", FALSE)
    /\ UNCHANGED <<clientVars, waited, callers, observed, ended, now, issued, tlog, op, base, authctx,
                 attempt, force>>

\* _ensure_valid_token lines 236-239 with _refresh lines 175-184: on force or a
\* stale token call _refresh, which sends the refresh POST, or returns False at
\* once without a refresh token, and then the login POST is sent.
EnsureCheck(t) ==
    /\ Continuing(t, "ens_check")
    /\ LET stale == TokenNeedsRefresh(tokens, now)
       IN  IF ~NeedsRefreshCall(force[t], tokens, now)
           THEN /\ Note([h EXCEPT ![t].checked = TRUE, ![t].stale = stale])
                /\ Goto(t, "ens_final", FALSE)
                /\ UNCHANGED authctx
           ELSE IF RefreshSkipped(tokens)
           THEN /\ Note([h EXCEPT ![t].checked = TRUE, ![t].stale = stale,
                                  ![t].nrefresh = @ + 1, ![t].authreq = @ + 1])
                /\ authctx' = [authctx EXCEPT ![t] = "ens"]
                /\ Goto(t, "auth_wait", TRUE)
           ELSE /\ Note([h EXCEPT ![t].checked = TRUE, ![t].stale = stale,
                                  ![t].nrefresh = @ + 1, ![t].refreshreq = @ + 1])
                /\ Goto(t, "refresh_wait", TRUE)
                /\ UNCHANGED authctx
    /\ UNCHANGED <<clientVars, lockVars, now, issued, tlog, op, base, phase, attempt, force>>

\* _refresh lines 189-201 and _ensure_valid_token lines 238-239: the refresh
\* response arrives; if _refresh returns False the login POST is sent.
Refresh(t, status, shape) ==
    /\ Resumable(t, "refresh_wait")
    /\ Log("refresh", status, shape)
    /\ IF status = Timeout
       THEN /\ Raise(t, TransportError)
            /\ Note([h EXCEPT ![t].timedout = "refresh"])
            /\ UNCHANGED <<tokens, issued>>
       ELSE IF RefreshDisposition(status) = "raise"
       THEN Raise(t, HarviaAuthError) /\ UNCHANGED <<tokens, issued, h>>
       ELSE IF RefreshDisposition(status) = "false"
       THEN /\ Note([h EXCEPT ![t].authreq = @ + 1])
            /\ authctx' = [authctx EXCEPT ![t] = "ens"]
            /\ Goto(t, "auth_wait", TRUE)
            /\ UNCHANGED <<tokens, issued, lockVars, op, base, phase, attempt, force>>
       ELSE /\ issued < MaxTokens
            /\ issued' = issued + 1
            /\ tokens' = ApplyTokenPayload(tokens, Payload(shape, issued + 1), TRUE, now)
            /\ IF tokens'.id_token # None
               THEN /\ Note([h EXCEPT ![t].refreshok = TRUE])
                    /\ Goto(t, "ens_final", FALSE)
                    /\ waited' = [u \in Tasks |->
                                    waited[u] \/ \E k \in 1..Len(lock_waiters) : lock_waiters[k] = u]
                    /\ UNCHANGED authctx
               ELSE /\ Note([h EXCEPT ![t].authreq = @ + 1])
                    /\ authctx' = [authctx EXCEPT ![t] = "ens"]
                    /\ Goto(t, "auth_wait", TRUE)
                    /\ UNCHANGED waited
            /\ UNCHANGED <<auth_lock, lock_waiters, callers, observed, ended,
                           op, base, phase, attempt, force>>
    /\ UNCHANGED <<session, endpointVars, now>>

\* _ensure_valid_token lines 241-242, then the lock is released.
EnsureFinal(t) ==
    /\ Continuing(t, "ens_final")
    /\ IF tokens.id_token = None
       THEN Raise(t, HarviaAuthError)
       ELSE IF op[t] = "_ensure_valid_token"
       THEN Finish(t, Ok(""))
       ELSE /\ auth_lock' = NoTask
            /\ phase' = [phase EXCEPT ![t] = "rc"]
            /\ Goto(t, "rc_send", FALSE)
            /\ waited' = [waited EXCEPT ![t] = FALSE]
            /\ UNCHANGED <<lock_waiters, callers, observed, ended, op, base, authctx, attempt, force>>
    /\ UNCHANGED <<clientVars, now, issued, tlog, h>>

\* rest_call lines 270-280: the data request is sent with the bearer token.
SendRequest(t) ==
    /\ Continuing(t, "rc_send")
    /\ Note([h EXCEPT ![t].ndata = @ + 1, ![t].bearer = tokens.id_token,
                      ![t].bearer0 = IF attempt[t] = 0 THEN tokens.id_token ELSE @])
    /\ Goto(t, "data_wait", TRUE)
    /\ UNCHANGED <<clientVars, lockVars, now, issued, tlog, frameVars>>

\* rest_call lines 281-295: the data response arrives.
DataResponse(t, status, text) ==
    /\ Resumable(t, "data_wait")
    /\ Note([h EXCEPT ![t].status0 = IF attempt[t] = 0 THEN status ELSE @,
                      ![t].text0 = IF attempt[t] = 0 THEN text ELSE @,
                      ![t].status1 = IF attempt[t] = 1 THEN status ELSE @,
                      ![t].text1 = IF attempt[t] = 1 THEN text ELSE @,
                      ![t].timedout = IF status = Timeout THEN "data" ELSE @])
    /\ IF status = Timeout
       THEN Raise(t, TransportError)
       ELSE LET d == RestCallDisposition(status, attempt[t])
            IN  IF d = "return"
                THEN IF IsJson(text)
                     THEN Finish(t, Ok(ParseBody(text)))
                     ELSE Raise(t, JSONDecodeError)
                ELSE IF d = "retry"
                THEN IF attempt[t] + 1 < 2
                     THEN /\ attempt' = [attempt EXCEPT ![t] = @ + 1]
                          /\ Goto(t, "rc_loop", FALSE)
                          /\ UNCHANGED <<lockVars, op, base, phase, authctx, force>>
                     ELSE Raise(t, HarviaAuthError)
                ELSE IF d = "auth_error"
                THEN Raise(t, HarviaAuthError)
                ELSE Raise(t, RuntimeError(status, text))
    /\ UNCHANGED <<clientVars, now, issued, tlog>>

\* time.time() advances while no coroutine is running.
Tick ==
    /\ running = NoTask
    /\ now < MaxTime
    /\ now' = now + TickStep
    /\ UNCHANGED <<clientVars, lockVars, issued, tlog, running, frameVars, pc, result, h>>

\* ------------------------------------------------------------- coordinator
\* What the API answers to get_devices / get_device_state / get_latest_data:
\* a value, or one of the exceptions the coordinator tells apart.
ApiOutcomes == {"ok", "HarviaAuthError", "HarviaApiError403", "HarviaApiError500", "Exception"}
DeviceIds == {"A", "B"}
\* dev.attrs.get("serialNumber"): device B carries one, device A does not.
SerialNumber(d) == IF d = "B" THEN "SN-B" ELSE ""
\* Device lists the cloud can answer with.
DeviceLists == {<<>>, <<"A">>, <<"B">>, <<"A", "B">>, <<"B", "A">>}

NoEntries == [d \in DeviceIds |-> 0]
Ids(list) == {list[k] : k \in 1..Len(list)}

\* try_ids of _try_state_with_fallback / _try_latest_with_fallback, lines 56-61, 84-89
TryIds(d) ==
    IF SerialNumber(d) # "" /\ SerialNumber(d) # d THEN <<d, SerialNumber(d)>> ELSE <<d>>

\* Mutant: every failure of a lookup is re-raised.
TryOutcome_AnyErrorRaises(outcome, more) ==
    IF outcome = "ok" THEN "value" ELSE "raise"

\* Mutant: an auth error is handled like any other error of a lookup.
TryOutcome_AuthAsError(outcome, more) ==
    IF outcome = "ok" THEN "value"
    ELSE IF more THEN "next"
    ELSE "none"

\* Mutant: a 403 API error of a lookup is re-raised like an auth error.
TryOutcome_ForbiddenRaises(outcome, more) ==
    IF outcome = "ok" THEN "value"
    ELSE IF outcome \in {"HarviaAuthError", "HarviaApiError403"} THEN "raise"
    ELSE IF more THEN "next"
    ELSE "none"

\* One pass of the loop over try_ids, lines 64-80 and 92-106: the lookup's value is
\* returned, an auth error is re-raised, any other error moves on to the next
\* id, and after the last id None is returned.
TryOutcome(outcome, more) ==
    IF outcome = "ok" THEN "value"
    ELSE IF outcome = "HarviaAuthError" THEN "raise"
    ELSE IF more THEN "next"
    ELSE "none"

\* Mutant: every failure of the device-list fetch asks for re-authentication.
ListFailure_AlwaysAuthFailed(outcome) == "ConfigEntryAuthFailed"

\* The except clauses of lines 116-119, 67-76 and 94-101 as they see the
\* outcome r of a call of HarviaSaunaAPI: a value, HarviaAuthError, or an
\* exception of another class (RuntimeError, a timeout, a JSON error).
OutcomeOf(r) ==
    IF r.kind = "ok" THEN "ok"
    ELSE IF r = HarviaAuthError THEN "HarviaAuthError"
    ELSE "Exception"

\* _async_update_data, lines 116-119: what a failed device-list fetch raises.
ListFailure(outcome) ==
    IF outcome = "HarviaAuthError" THEN "ConfigEntryAuthFailed" ELSE "UpdateFailed"

\* _async_update_data, lines 134-135 and 144-145: what an auth error of a
\* per-device fetch raises.
DeviceAuthFailure == "ConfigEntryAuthFailed"

\* History of one cycle, reset when it starts.
\*   prev_states/prev_latest  the maps as the cycle found them
\*   ok_state/ok_latest       devices whose fetch returned a value
\*   bad_state/bad_latest     devices whose fetch failed on every id, not by an auth error
\*   auth_seen                a fetch of this cycle raised HarviaAuthError
\*   list_ok                  the device list was fetched
\*   lookups                  lookups issued for the current device and kind
\*   first                    how the lookup with the primary id of the last device and
\*                            kind looked up ended ("": no lookup answered yet)
\*   first_dev                that device ("": none)
\*   retried                  a lookup with the serial number followed it
\*   list_at/latest_at        time the device list / a telemetry sample was last
\*                            fetched with success (-1: never); kept across cycles
\*   prev_list_at/prev_latest_at  the same, as the cycle found them
\*   list_req_at/latest_req_at    time this cycle issued its last device-list /
\*                            telemetry request (-1: none)
G0 == [prev_states |-> NoEntries, prev_latest |-> NoEntries,
       ok_state |-> {}, ok_latest |-> {}, bad_state |-> {}, bad_latest |-> {},
       auth_seen |-> FALSE, list_ok |-> FALSE, lookups |-> 0,
       list_at |-> -1, latest_at |-> -1, prev_list_at |-> -1, prev_latest_at |-> -1,
       list_req_at |-> -1, latest_req_at |-> -1,
       first |-> "", first_dev |-> "", retried |-> FALSE]

coordVars == <<devices, states, latest, c_pc, c_devices, c_i, c_try, new_states,
               new_latest, c_result, cycle, devices_cycle, states_cycle, g>>

\* HarviaFenixCoordinator.__init__, lines 35-36, with the defaults of const.py
\* that async_setup_entry passes (seconds); _async_update_data reads neither.
device_poll_interval_s == 60
data_poll_interval_s == 60

\* HarviaFenixCoordinator.__init__, line 25: the interval the constructor
\* computes, and lines 27-32: the update_interval it hands to
\* DataUpdateCoordinator, whose timer is armed only for an interval that is
\* not None.
Min(a, b) == IF a <= b THEN a ELSE b
Max(a, b) == IF a >= b THEN a ELSE b
update_interval_s == Max(10, Min(device_poll_interval_s, data_poll_interval_s))
update_interval == None

\* HarviaFenixCoordinator.__init__, lines 38-40
CoordInit ==
    /\ devices = {}
    /\ states = NoEntries
    /\ latest = NoEntries
    /\ c_pc = "idle"
    /\ c_devices = <<>>
    /\ c_i = 0
    /\ c_try = 0
    /\ new_states = NoEntries
    /\ new_latest = NoEntries
    /\ c_result = "none"
    /\ cycle = 0
    /\ devices_cycle = 0
    /\ states_cycle = 0
    /\ g = G0

\* The cycle ends by raising exc.
Abort(exc) ==
    /\ c_pc' = "idle"
    /\ c_result' = exc
    /\ UNCHANGED <<c_devices, c_i, c_try, new_states, new_latest>>

\* _async_update_data, lines 149-157: publish and return the snapshot.
Publish(ns, nl) ==
    /\ states' = ns
    /\ latest' = nl
    /\ states_cycle' = cycle
    /\ c_pc' = "idle"
    /\ c_result' = "snapshot"

\* A refresh is requested: _async_update_data runs up to `await get_devices()`.
UpdateData ==
    /\ c_pc = "idle"
    /\ cycle < MaxCycles
    /\ cycle' = cycle + 1
    /\ c_pc' = "list_wait"
    /\ c_result' = "none"
    /\ g' = [G0 EXCEPT !.prev_states = states, !.prev_latest = latest,
                       !.prev_list_at = g.list_at, !.list_at = g.list_at,
                       !.prev_latest_at = g.latest_at, !.latest_at = g.latest_at,
                       !.list_req_at = now]
    /\ UNCHANGED <<devices, states, latest, c_devices, c_i, c_try, new_states, new_latest,
                   devices_cycle, states_cycle>>

\* _async_update_data, lines 114-131: get_devices answers or fails; the device
\* map is stored and the first state lookup is issued.
DevicesResult(outcome, list) ==
    /\ c_pc = "list_wait"
    /\ IF outcome # "ok"
       THEN /\ Abort(ListFailure(outcome))
            /\ g' = [g EXCEPT !.auth_seen = outcome = "HarviaAuthError"]
            /\ UNCHANGED <<devices, states, latest, devices_cycle, states_cycle>>
       ELSE /\ devices' = Ids(list)
            /\ devices_cycle' = cycle
            /\ c_devices' = list
            /\ new_states' = NoEntries
            /\ new_latest' = NoEntries
            /\ IF list = <<>>
               THEN /\ Publish(NoEntries, NoEntries)
                    /\ g' = [g EXCEPT !.list_ok = TRUE, !.list_at = now]
                    /\ UNCHANGED <<c_i, c_try>>
               ELSE /\ c_i' = 1
                    /\ c_try' = 1
                    /\ c_pc' = "state_wait"
                    /\ g' = [g EXCEPT !.list_ok = TRUE, !.lookups = 1, !.list_at = now]
                    /\ UNCHANGED <<states, latest, states_cycle, c_result>>
    /\ UNCHANGED cycle

\* _async_update_data lines 130-141 with _try_state_with_fallback lines 64-80:
\* the state lookup of the current id answers or fails.
StateResult(outcome) ==
    /\ c_pc = "state_wait"
    /\ LET dev == c_devices[c_i]
           r == TryOutcome(outcome, c_try < Len(TryIds(dev)))
           ga == [g EXCEPT !.auth_seen = @ \/ outcome = "HarviaAuthError",
                           !.first = IF c_try = 1 THEN outcome ELSE @,
                           !.first_dev = IF c_try = 1 THEN dev ELSE @,
                           !.retried = IF c_try = 1 THEN r = "next" ELSE @]
       IN  IF r = "raise"
           THEN /\ Abort(DeviceAuthFailure)
                /\ g' = ga
           ELSE IF r = "next"
           THEN /\ c_try' = c_try + 1
                /\ g' = [ga EXCEPT !.lookups = @ + 1]
                /\ UNCHANGED <<c_pc, c_result, c_devices, c_i, new_states, new_latest>>
           ELSE /\ new_states' = IF r = "value" THEN [new_states EXCEPT ![dev] = cycle]
                                  ELSE new_states
                /\ c_try' = 1
                /\ c_pc' = "latest_wait"
                /\ g' = [ga EXCEPT !.ok_state = IF r = "value" THEN @ \cup {dev} ELSE @,
                                   !.bad_state = IF r = "none" THEN @ \cup {dev} ELSE @,
                                   !.lookups = 1, !.latest_req_at = now]
                /\ UNCHANGED <<c_result, c_devices, c_i, new_latest>>
    /\ UNCHANGED <<devices, states, latest, cycle, devices_cycle, states_cycle>>

\* _async_update_data lines 140-157 with _try_latest_with_fallback lines 92-106:
\* the telemetry lookup of the current id answers or fails; after the last
\* device the maps are published.
LatestResult(outcome) ==
    /\ c_pc = "latest_wait"
    /\ LET dev == c_devices[c_i]
           r == TryOutcome(outcome, c_try < Len(TryIds(dev)))
           nl == IF r = "value" THEN [new_latest EXCEPT ![dev] = cycle] ELSE new_latest
           ga == [g EXCEPT !.auth_seen = @ \/ outcome = "HarviaAuthError",
                           !.first = IF c_try = 1 THEN outcome ELSE @,
                           !.first_dev = IF c_try = 1 THEN dev ELSE @,
                           !.retried = IF c_try = 1 THEN r = "next" ELSE @]
           gn == [ga EXCEPT !.ok_latest = IF r = "value" THEN @ \cup {dev} ELSE @,
                            !.bad_latest = IF r = "none" THEN @ \cup {dev} ELSE @,
                            !.lookups = 1,
                            !.latest_at = IF r = "value" THEN now ELSE @]
       IN  IF r = "raise"
           THEN /\ Abort(DeviceAuthFailure)
                /\ g' = ga
                /\ UNCHANGED <<states, latest, states_cycle>>
           ELSE IF r = "next"
           THEN /\ c_try' = c_try + 1
                /\ g' = [ga EXCEPT !.lookups = @ + 1]
                /\ UNCHANGED <<c_pc, c_result, c_devices, c_i, new_states, new_latest,
                               states, latest, states_cycle>>
           ELSE IF c_i < Len(c_devices)
           THEN /\ new_latest' = nl
                /\ c_i' = c_i + 1
                /\ c_try' = 1
                /\ c_pc' = "state_wait"
                /\ g' = gn
                /\ UNCHANGED <<c_result, c_devices, new_states, states, latest, states_cycle>>
           ELSE /\ new_latest' = nl
                /\ Publish(new_states, nl)
                /\ g' = [gn EXCEPT !.lookups = 0]
                /\ UNCHANGED <<c_devices, c_i, c_try, new_states>>
    /\ UNCHANGED <<devices, cycle, devices_cycle>>

\* ------------------------------------------- entities and payload functions
\* JSON values, told apart by what the code asks of them: whether they are
\* None, whether they are falsy, and what str() makes of them.
JNull == "null"                \* null, or the member is missing (.get gives None)
JEmptyStr == "''"              \* the empty string
JZero == "0"                   \* 0 (False as a flag)
JOne == "1"                    \* 1 (True as a flag)
JTwo == "2"
JSeven == "7"                  \* a number other than 0, 1 and 2
JFloat == "1.7"
JStrOne == "'1'"               \* the string "1"
JStrX == "'x'"                 \* a string that is no number
JStrId == "'id-1'"
JStrDev == "'dev-1'"
JStrName == "'Sauna'"

\* Python truthiness and str().
Truthy(v) == v \notin {JNull, JEmptyStr, JZero}
PyStr(v) ==
    CASE v = JZero -> "0"
      [] v = JOne -> "1"
      [] v = JTwo -> "2"
      [] v = JSeven -> "7"
      [] v = JFloat -> "1.7"
      [] v = JStrOne -> "1"
      [] v = JStrX -> "x"
      [] v = JStrId -> "id-1"
      [] v = JStrDev -> "dev-1"
      [] v = JStrName -> "Sauna"
      [] OTHER -> ""

\* ---- get_devices: the payload of GET /devices
MaxItems == 2
\* An entry of the list: a JSON object with its id, deviceId and name
\* members, or something that is no object.
ObjectItems == [kind : {"object"}, id : {JNull, JEmptyStr, JZero, JSeven, JStrId},
                deviceId : {JNull, JStrDev}, name : {JNull, JStrName}]
OtherItem == [kind |-> "other", id |-> JNull, deviceId |-> JNull, name |-> JNull]
Items == ObjectItems \cup {OtherItem}
ItemLists == UNION {[1..n -> Items] : n \in 0..MaxItems}
\* top: what the body is (a dict, a list, something else); devices: what its
\* "devices" member is when it is a dict; items: the entries of the list.
DevicePayloads ==
    [top : {"list"}, devices : {"absent"}, items : ItemLists]
    \cup [top : {"dict"}, devices : {"list"}, items : ItemLists]
    \cup [top : {"dict"}, devices : {"absent", "other"}, items : {<<>>}]
    \cup [top : {"other"}, devices : {"absent"}, items : {<<>>}]
NoPayload == [top |-> "other", devices |-> "absent", items |-> <<>>]

\* get_devices, line 306: devices_raw and whether it is a list (line 308).
DevicesRaw(data) ==
    IF data.top = "dict"
    THEN [islist |-> data.devices = "list", items |-> data.items]
    ELSE [islist |-> data.top = "list", items |-> data.items]

\* Mutant: the name is preferred to the ids.
DeviceId_NameFirst(item) ==
    IF Truthy(item.name) THEN PyStr(item.name)
    ELSE IF Truthy(item.id) THEN PyStr(item.id)
    ELSE IF Truthy(item.deviceId) THEN PyStr(item.deviceId)
    ELSE ""

\* get_devices, line 318: str(id or deviceId or name or "").
DeviceId(item) ==
    IF Truthy(item.id) THEN PyStr(item.id)
    ELSE IF Truthy(item.deviceId) THEN PyStr(item.deviceId)
    ELSE IF Truthy(item.name) THEN PyStr(item.name)
    ELSE ""

\* get_devices, lines 322-330: the HarviaDevice built for an entry.
HarviaDevice(item) ==
    [id |-> DeviceId(item),
     name |-> IF Truthy(item.name) THEN PyStr(item.name) ELSE DeviceId(item)]

\* get_devices, lines 313-330: the loop over devices_raw.
RECURSIVE ParseItems(_)
ParseItems(items) ==
    IF items = <<>> THEN <<>>
    ELSE LET item == Head(items)
         IN  IF item.kind # "object" THEN ParseItems(Tail(items))
             ELSE IF DeviceId(item) = "" THEN ParseItems(Tail(items))
             ELSE <<HarviaDevice(item)>> \o ParseItems(Tail(items))

\* get_devices, lines 306-332, applied to the parsed body.
ParseDevices(data) ==
    IF ~DevicesRaw(data).islist THEN <<>> ELSE ParseItems(DevicesRaw(data).items)

\* ---- _extract_state
\* The fields the active profile can override, by their normalized names'
\* sources: targetTemp, targetHum, heater.on, steamer.on, light.on.
Fields == {"targetTemp", "targetHum", "heater_on", "steamer_on", "light_on"}
AllNull == [f \in Fields |-> JNull]
ProfileKeys == {"1", "2"}
\* An entry of state.profiles: missing, an object with its fields, or no
\* object; state is what the entry's heater and steamer members carry as
\* their "state".
ProfileEntries ==
    [kind : {"dict"}, f : [Fields -> {JNull, JZero, JOne}], state : {JNull, JOne}]
    \cup [kind : {"absent", "other"}, f : {AllNull}, state : {JNull}]
NoEntry == [kind |-> "absent", f |-> AllNull, state |-> JNull]
SetEntry == [kind |-> "dict", f |-> [f \in Fields |-> JOne], state |-> JOne]
\* An entry of the normalized profiles: the fields lines 413-421 copy.
NoNormEntry == [kind |-> "absent", f |-> AllNull]
NormEntry(e) == [kind |-> "dict", f |-> e.f]
\* state.profiles: a dict (of the entries under the keys "1" and "2"), a
\* list, or missing.
ProfileMaps ==
    {[shape |-> "dict", entries |-> [k \in ProfileKeys |-> IF k = "1" THEN e ELSE SetEntry]] :
        e \in ProfileEntries}
    \cup [shape : {"list", "absent"}, entries : {[k \in ProfileKeys |-> NoEntry]}]
\* The raw object: state.activeProfile, state.profiles, the root values of
\* the five fields, and heater.state / steamer.state.
ActiveProfileValues == {JNull, JOne, JStrOne, JFloat, JTwo, JSeven, JStrX}
RawStates ==
    [activeProfile : ActiveProfileValues,
     profiles : ProfileMaps,
     root : [Fields -> {JNull, JSeven}],
     heater_state : {JNull, JStrX},
     steamer_state : {JNull}]
    \cup
    [activeProfile : {JOne},
     profiles : {[shape |-> "dict", entries |-> [k \in ProfileKeys |-> SetEntry]]},
     root : {AllNull},
     heater_state : {JNull, JStrX},
     steamer_state : {JStrX}]
NoRaw == [activeProfile |-> JNull,
          profiles |-> [shape |-> "absent", entries |-> [k \in ProfileKeys |-> NoEntry]],
          root |-> AllNull, heater_state |-> JNull, steamer_state |-> JNull]
NoNormalized == [target |-> AllNull, heater_state |-> JNull, steamer_state |-> JNull,
                 active_profile |-> JNull,
                 profiles |-> [k \in ProfileKeys |-> NoNormEntry]]

\* _extract_state, line 382: str(int(active_profile)); "" when int() raises.
ApKey(v) ==
    CASE v = JOne -> "1"
      [] v = JStrOne -> "1"
      [] v = JFloat -> "1"
      [] v = JTwo -> "2"
      [] v = JSeven -> "7"
      [] OTHER -> ""

\* _extract_state, lines 380-386: active_profile_dict (NoEntry = None).
ActiveProfileDict(obj) ==
    IF ApKey(obj.activeProfile) = "" THEN NoEntry
    ELSE IF obj.profiles.shape # "dict" THEN NoEntry
    ELSE IF ApKey(obj.activeProfile) \notin ProfileKeys THEN NoEntry
    ELSE obj.profiles.entries[ApKey(obj.activeProfile)]

\* _extract_state, lines 388-407: profile_target_temp, ..., profile_light_on.
ProfileValue(obj, f) ==
    IF ActiveProfileDict(obj).kind = "dict" THEN ActiveProfileDict(obj).f[f] ELSE JNull

\* Mutant: `profile or root` instead of `profile if profile is not None else root`.
Prefer_Truthy(pv, rv) == IF Truthy(pv) THEN pv ELSE rv

\* _extract_state, lines 428-437: `pv if pv is not None else rv`.
Prefer(pv, rv) == IF pv # JNull THEN pv ELSE rv

\* Mutant: the active profile's state member is preferred to the root's.
ActualState_FromProfile(obj, which) ==
    Prefer(ActiveProfileDict(obj).state,
           IF which = "heater" THEN obj.heater_state ELSE obj.steamer_state)

\* _extract_state, lines 429 and 432: heater.get("state"), steamer.get("state")
\* of the root state.
ActualState(obj, which) ==
    IF which = "heater" THEN obj.heater_state ELSE obj.steamer_state

\* Mutant: only the active profile is kept.
NormProfiles_ActiveOnly(obj) ==
    [k \in ProfileKeys |->
        IF /\ obj.profiles.shape = "dict" /\ obj.profiles.entries[k].kind = "dict"
           /\ ApKey(obj.activeProfile) = k
        THEN NormEntry(obj.profiles.entries[k]) ELSE NoNormEntry]

\* _extract_state, lines 409-422: norm_profiles keeps the entries that are objects.
NormProfiles(obj) ==
    [k \in ProfileKeys |->
        IF obj.profiles.shape = "dict" /\ obj.profiles.entries[k].kind = "dict"
        THEN NormEntry(obj.profiles.entries[k]) ELSE NoNormEntry]

\* Mutant: the actual heater state is reported only while the clock stands
\* at its start (a result that depends on something else than obj).
ExtractState_ClockDependent(obj) ==
    [target |-> [f \in Fields |-> Prefer(ProfileValue(obj, f), obj.root[f])],
     heater_state |-> IF now = 0 THEN ActualState(obj, "heater") ELSE JNull,
     steamer_state |-> ActualState(obj, "steamer"),
     active_profile |-> obj.activeProfile,
     profiles |-> NormProfiles(obj)]

\* _extract_state, lines 424-457: the returned dict.
ExtractState(obj) ==
    [target |-> [f \in Fields |-> Prefer(ProfileValue(obj, f), obj.root[f])],
     heater_state |-> ActualState(obj, "heater"),
     steamer_state |-> ActualState(obj, "steamer"),
     active_profile |-> obj.activeProfile,
     profiles |-> NormProfiles(obj)]

\* ---- the profile entities: _async_set_active_profile of select.py and number.py
MaxProfile == 2
Entities == {"select", "number"}
\* The methods the hasattr chain asks for, in its order.
Candidates == <<"set_device_target", "set_active_profile", "set_device_state">>
CandidateSet == {Candidates[k] : k \in 1..Len(Candidates)}
\* The API objects the entity can meet: which of the methods it has.
ApiObjects == SUBSET CandidateSet
CommandOutcomes == {"ok", "error"}

\* Lines 132-140 (select.py), 128-136 (number.py): the first method the API has
\* (0: none).
FirstCandidate(api) ==
    IF \E k \in 1..Len(Candidates) : Candidates[k] \in api
    THEN CHOOSE k \in 1..Len(Candidates) :
            /\ Candidates[k] \in api
            /\ \A j \in 1..(k - 1) : Candidates[j] \notin api
    ELSE 0

\* ---------------------------------------------------- re-authentication
\* What api.refresh() and api.login() of the flow's API object end with: the
\* token payload, or one of the exceptions the step tells apart.
ReauthOutcomes == {"ok", "HarviaAuthError", "HarviaApiError", "Exception"}
\* Token payloads api.refresh() and api.login() return.
TokenPayloads ==
    [idToken : {JNull, JStrId}, accessToken : {JNull, JStrOne},
     refreshToken : {JNull, JStrX}, expiresIn : {JNull, JZero, JSeven, JStrX}]
NoTokens == [idToken |-> JNull, accessToken |-> JNull, refreshToken |-> JNull,
             expiresIn |-> JNull]
\* api.endpoints after the call: the endpoints the entry stored or others.
ApiEndpoints(data) == {data.endpoints, "E1"}

\* entry.data as async_step_user stored it (str() of a missing refresh token
\* is "None").
EntryData ==
    [id_token : {"id-0"}, access_token : {""}, refresh_token : {"r-0", "None"},
     expires_in : {0, ExpiresIn}, token_obtained_at : {0}, endpoints : {"E0"}]
ConfigEntries == [data : EntryData, updates : {0}, reloads : {0}]
NoConfigEntry ==
    [data |-> [id_token |-> "", access_token |-> "", refresh_token |-> "",
               expires_in |-> 0, token_obtained_at |-> 0, endpoints |-> ""],
     updates |-> 0, reloads |-> 0]

\* The flow:
\*   found     self.reauth_entry is an entry (not None)
\*   pc        "idle", "form" (a form is shown), "refresh_wait", "login_wait",
\*             "reload_wait", "done"
\*   result    what the step returned or raised
\*   errors    errors["base"] of the form shown ("": none)
\*   password  user_input[CONF_PASSWORD]
\*   calls     the calls the step made, in order
\*   refreshed, logged_in   how api.refresh() and api.login() ended ("": not yet)
\*   tokens    the payload the successful call returned
\*   data0     entry.data when the step was entered
NoFlow ==
    [found |-> FALSE, pc |-> "idle", result |-> "", errors |-> "", password |-> "",
     calls |-> <<>>, refreshed |-> "", logged_in |-> "", tokens |-> NoTokens,
     data0 |-> NoConfigEntry.data]
FlowIdle == entry = NoConfigEntry /\ flow = NoFlow
flowVars == <<entry, flow>>

entityOnlyVars == <<d_api, d_entity, d_idx, d_pc, d_calls, d_result,
                    dev_payload, dev_out, raw, normalized, fn_done>>
entityVars == <<d_api, d_entity, d_idx, d_pc, d_calls, d_result,
                dev_payload, dev_out, raw, normalized, fn_done, entry, flow>>

vars == <<apiVars, coordVars, entityVars>>

\* No entity is dispatching and no payload is at hand.
EntityInit ==
    /\ d_api = {}
    /\ d_entity = ""
    /\ d_idx = 0
    /\ d_pc = "idle"
    /\ d_calls = <<>>
    /\ d_result = "none"
    /\ dev_payload = NoPayload
    /\ dev_out = <<>>
    /\ raw = NoRaw
    /\ normalized = NoNormalized
    /\ fn_done = FALSE
    /\ FlowIdle

\* _async_set_active_profile up to its first await: the first method the API
\* has is called, and with none RuntimeError is raised (lines 142-146).
SetActiveProfile(e, idx) ==
    /\ d_pc = "idle"
    /\ d_entity' = e
    /\ d_idx' = idx
    /\ IF FirstCandidate(d_api) = 0
       THEN /\ d_pc' = "done"
            /\ d_result' = "RuntimeError"
            /\ d_calls' = <<>>
       ELSE /\ d_pc' = "call"
            /\ d_result' = "none"
            /\ d_calls' = <<Candidates[FirstCandidate(d_api)]>>
    /\ UNCHANGED <<d_api, dev_payload, dev_out, raw, normalized, fn_done, flowVars>>

\* The awaited call answers: `return` after a value, and an exception of the
\* call leaves _async_set_active_profile (there is no try around it).
CommandResult(outcome) ==
    /\ d_pc = "call"
    /\ d_pc' = "done"
    /\ d_result' = outcome
    /\ UNCHANGED <<d_api, d_entity, d_idx, d_calls, dev_payload, dev_out, raw, normalized,
                   fn_done, flowVars>>

\* get_devices after rest_call returned the body dev_payload.
GetDevices ==
    /\ ~fn_done
    /\ dev_out' = ParseDevices(dev_payload)
    /\ fn_done' = TRUE
    /\ UNCHANGED <<d_api, d_entity, d_idx, d_pc, d_calls, d_result, dev_payload, raw,
                   normalized, flowVars>>

\* refresh_device_state hands the body to _extract_state.
ExtractStateCall ==
    /\ ~fn_done
    /\ normalized' = ExtractState(raw)
    /\ fn_done' = TRUE
    /\ UNCHANGED <<d_api, d_entity, d_idx, d_pc, d_calls, d_result, dev_payload, dev_out,
                   raw, flowVars>>

\* _extract_state is handed the same body once more (a later
\* refresh_device_state that got the same answer).
ExtractStateAgain ==
    /\ fn_done
    /\ normalized' = ExtractState(raw)
    /\ UNCHANGED <<d_api, d_entity, d_idx, d_pc, d_calls, d_result, dev_payload, dev_out,
                   raw, fn_done, flowVars>>

\* ------------------------------------------- re-authentication: the step
\* int(v or 0) of lines 199-200 (ok = FALSE: ValueError)
PyInt(v) ==
    CASE v \in {JNull, JEmptyStr, JZero} -> [ok |-> TRUE, val |-> 0]
      [] v = JOne -> [ok |-> TRUE, val |-> 1]
      [] v = JTwo -> [ok |-> TRUE, val |-> 2]
      [] v = JSeven -> [ok |-> TRUE, val |-> 7]
      [] v = JFloat -> [ok |-> TRUE, val |-> 1]
      [] v = JStrOne -> [ok |-> TRUE, val |-> 1]
      [] OTHER -> [ok |-> FALSE, val |-> 0]

\* Mutant: a failed refresh of any kind is followed by the login.
ReauthDisposition_LoginOnAnyError(call, outcome) ==
    IF outcome = "ok" THEN "update"
    ELSE IF call = "refresh" THEN "login"
    ELSE IF outcome = "HarviaAuthError" THEN "invalid_auth"
    ELSE "unknown"

\* Lines 180-190: what the step does when api.refresh() or api.login() ended.
ReauthDisposition(call, outcome) ==
    IF outcome = "ok" THEN "update"
    ELSE IF outcome = "HarviaAuthError"
    THEN IF call = "refresh" THEN "login" ELSE "invalid_auth"
    ELSE "unknown"

\* Lines 192-203: new_data built from entry.data, the token payload,
\* time.time() and api.endpoints.
NewData(data, tok, endpoints, t) ==
    [id_token |-> IF Truthy(tok.idToken) THEN PyStr(tok.idToken) ELSE data.id_token,
     access_token |-> IF Truthy(tok.accessToken) THEN PyStr(tok.accessToken)
                      ELSE data.access_token,
     refresh_token |-> IF Truthy(tok.refreshToken) THEN PyStr(tok.refreshToken)
                       ELSE data.refresh_token,
     expires_in |-> IF tok.expiresIn # JNull THEN PyInt(tok.expiresIn).val
                    ELSE data.expires_in,
     token_obtained_at |-> t,
     endpoints |-> endpoints]

\* async_step_reauth_confirm up to `await api.refresh()`, lines 154-181: abort
\* without an entry, show the form without input, else build the API object
\* from the entry and call refresh.
ReauthConfirm(user_input) ==
    /\ flow.pc \in {"idle", "form"}
    /\ IF ~flow.found
       THEN flow' = [flow EXCEPT !.pc = "done", !.result = "abort:unknown"]
       ELSE IF user_input = ""
       THEN flow' = [flow EXCEPT !.pc = "form", !.result = "form", !.errors = "",
                                 !.calls = <<>>, !.refreshed = "", !.logged_in = ""]
       ELSE flow' = [flow EXCEPT !.pc = "refresh_wait", !.result = "", !.errors = "",
                                 !.password = user_input, !.calls = <<"refresh">>,
                                 !.refreshed = "", !.logged_in = "",
                                 !.tokens = NoTokens, !.data0 = entry.data]
    /\ UNCHANGED entry

\* Lines 192-206: the entry is updated and its reload is awaited; int() of an
\* expiresIn that is no number raises before the entry is touched.
UpdateEntry(f, tok, endpoints) ==
    IF tok.expiresIn # JNull /\ ~PyInt(tok.expiresIn).ok
    THEN /\ flow' = [f EXCEPT !.pc = "done", !.result = "ValueError"]
         /\ UNCHANGED entry
    ELSE /\ entry' = [entry EXCEPT !.data = NewData(entry.data, tok, endpoints, now),
                                   !.updates = @ + 1]
         /\ flow' = [f EXCEPT !.pc = "reload_wait",
                              !.calls = f.calls \o <<"update", "reload">>]

\* The form is shown again with an error, lines 184-190.
ShowError(f, error) ==
    /\ flow' = [f EXCEPT !.pc = "form", !.result = "form", !.errors = error]
    /\ UNCHANGED entry

\* api.refresh() ended, lines 181-206.
RefreshResult(outcome, tok, endpoints) ==
    /\ flow.pc = "refresh_wait"
    /\ LET f == [flow EXCEPT !.refreshed = outcome,
                             !.tokens = IF outcome = "ok" THEN tok ELSE @]
           d == ReauthDisposition("refresh", outcome)
       IN  IF d = "update" THEN UpdateEntry(f, tok, endpoints)
           ELSE IF d = "login"
           THEN /\ flow' = [f EXCEPT !.pc = "login_wait", !.calls = Append(@, "login")]
                /\ UNCHANGED entry
           ELSE ShowError(f, d)

\* api.login(password=password) ended, lines 183-206.
LoginResult(outcome, tok, endpoints) ==
    /\ flow.pc = "login_wait"
    /\ LET f == [flow EXCEPT !.logged_in = outcome,
                             !.tokens = IF outcome = "ok" THEN tok ELSE @]
           d == ReauthDisposition("login", outcome)
       IN  IF d = "update" THEN UpdateEntry(f, tok, endpoints)
           ELSE ShowError(f, d)

\* async_reload returned, lines 206-207: the flow ends.
ReloadDone ==
    /\ flow.pc = "reload_wait"
    /\ entry' = [entry EXCEPT !.reloads = @ + 1]
    /\ flow' = [flow EXCEPT !.pc = "done", !.result = "abort:reauth_successful"]

\* ----------------------------------------------------------- specifications
\* One caller of the client, whose operations run one after another and are
\* observed: the lock is never contended.
Init == ClientInit /\ callers = {1} /\ observed = TRUE /\ tlog = NoLog /\ CoordInit /\ EntityInit
Next ==
    \/ (\E t \in Tasks, o \in Ops, b \in {"", "device"}, f \in BOOLEAN : StartOp(t, o, b, f))
          /\ UNCHANGED <<coordVars, entityVars>>
    \/ (\E t \in Tasks : RestCallLoop(t)) /\ UNCHANGED <<coordVars, entityVars>>
    \/ (\E t \in Tasks : AsyncInit(t)) /\ UNCHANGED <<coordVars, entityVars>>
    \/ (\E t \in Tasks, s \in {200, 500, Timeout}, d \in DiscoveryDocs : LoadEndpoints(t, s, d))
       /\ UNCHANGED <<coordVars, entityVars>>
    \/ (\E t \in Tasks : InitCheck(t)) /\ UNCHANGED <<coordVars, entityVars>>
    \/ (\E t \in Tasks, s \in Statuses, p \in PayloadShapes : Authenticate(t, s, p))
       /\ UNCHANGED <<coordVars, entityVars>>
    \/ (\E t \in Tasks : InitReturn(t)) /\ UNCHANGED <<coordVars, entityVars>>
    \/ (\E t \in Tasks : RestCallBase(t)) /\ UNCHANGED <<coordVars, entityVars>>
    \/ (\E t \in Tasks : EnsureValidToken(t)) /\ UNCHANGED <<coordVars, entityVars>>
    \/ (\E t \in Tasks : EnsureCheck(t)) /\ UNCHANGED <<coordVars, entityVars>>
    \/ (\E t \in Tasks, s \in Statuses, p \in PayloadShapes : Refresh(t, s, p))
       /\ UNCHANGED <<coordVars, entityVars>>
    \/ (\E t \in Tasks : EnsureFinal(t)) /\ UNCHANGED <<coordVars, entityVars>>
    \/ (\E t \in Tasks : SendRequest(t)) /\ UNCHANGED <<coordVars, entityVars>>
    \/ (\E t \in Tasks, s \in Statuses, x \in Bodies : DataResponse(t, s, x))
       /\ UNCHANGED <<coordVars, entityVars>>
    \/ Tick /\ UNCHANGED <<coordVars, entityVars>>
Spec == Init /\ [][Next]_vars

\* Concurrent callers of the client.
ConcInit == ClientInit /\ callers = Tasks /\ observed = FALSE /\ tlog = NoLog /\ CoordInit /\ EntityInit
ConcNext ==
    \/ Next
    \/ (\E t \in Tasks : LockAcquired(t)) /\ UNCHANGED <<coordVars, entityVars>>
ConcSpec == ConcInit /\ [][ConcNext]_vars

\* The coordinator's refresh cycles against an API that answers anything.
CoordStartInit == ClientInit /\ callers = {} /\ observed = FALSE /\ tlog = NoLog /\ CoordInit /\ EntityInit
CoordNext ==
    \/ UpdateData /\ UNCHANGED <<apiVars, entityVars>>
    \/ (\E o \in ApiOutcomes, l \in DeviceLists : DevicesResult(o, l)) /\ UNCHANGED <<apiVars, entityVars>>
    \/ (\E o \in ApiOutcomes : StateResult(o)) /\ UNCHANGED <<apiVars, entityVars>>
    \/ (\E o \in ApiOutcomes : LatestResult(o)) /\ UNCHANGED <<apiVars, entityVars>>
    \/ Tick /\ UNCHANGED <<coordVars, entityVars>>
CoordSpec == CoordStartInit /\ [][CoordNext]_vars

\* What goes on without anybody asking: the answers of the cloud arrive, the
\* clock advances, and the timer of DataUpdateCoordinator starts a cycle when
\* an update_interval is set. A refresh requested from outside (the first
\* refresh of the setup, async_request_refresh of an entity) may come or not.
ScheduledRefresh == update_interval # None /\ UpdateData
CoordInternal ==
    \/ ScheduledRefresh /\ UNCHANGED <<apiVars, entityVars>>
    \/ (\E o \in ApiOutcomes, l \in DeviceLists : DevicesResult(o, l)) /\ UNCHANGED <<apiVars, entityVars>>
    \/ (\E o \in ApiOutcomes : StateResult(o)) /\ UNCHANGED <<apiVars, entityVars>>
    \/ (\E o \in ApiOutcomes : LatestResult(o)) /\ UNCHANGED <<apiVars, entityVars>>
    \/ Tick /\ UNCHANGED <<coordVars, entityVars>>
CoordFairSpec == CoordSpec /\ WF_vars(CoordInternal)

\* One caller, observed, and the answers to the token requests are logged.
TokInit == ClientInit /\ callers = {1} /\ observed = TRUE /\ tlog = T0 /\ CoordInit /\ EntityInit
TokSpec == TokInit /\ [][Next]_vars

\* One caller, and every request is eventually answered or times out, and
\* the event loop runs a coroutine that can run.
FairSpec == Spec /\ WF_vars(Next)

\* An entity sets the active profile on an API object with any of the
\* candidate methods.
DispatchInit ==
    /\ ClientInit /\ callers = {} /\ observed = FALSE /\ tlog = NoLog /\ CoordInit
    /\ d_api \in ApiObjects
    /\ d_entity = "" /\ d_idx = 0 /\ d_pc = "idle" /\ d_calls = <<>> /\ d_result = "none"
    /\ dev_payload = NoPayload /\ dev_out = <<>>
    /\ raw = NoRaw /\ normalized = NoNormalized /\ fn_done = FALSE
    /\ FlowIdle
DispatchNext ==
    \/ (\E e \in Entities, idx \in 0..MaxProfile : SetActiveProfile(e, idx))
          /\ UNCHANGED <<apiVars, coordVars>>
    \/ (\E o \in CommandOutcomes : CommandResult(o)) /\ UNCHANGED <<apiVars, coordVars>>
DispatchSpec == DispatchInit /\ [][DispatchNext]_vars

\* get_devices on any body of GET /devices.
DevicesInit ==
    /\ ClientInit /\ callers = {} /\ observed = FALSE /\ tlog = NoLog /\ CoordInit
    /\ d_api = {} /\ d_entity = "" /\ d_idx = 0 /\ d_pc = "idle" /\ d_calls = <<>>
    /\ d_result = "none"
    /\ dev_payload \in DevicePayloads /\ dev_out = <<>>
    /\ raw = NoRaw /\ normalized = NoNormalized /\ fn_done = FALSE
    /\ FlowIdle
DevicesNext == GetDevices /\ UNCHANGED <<apiVars, coordVars>>
DevicesSpec == DevicesInit /\ [][DevicesNext]_vars

\* _extract_state on any raw state object.
StateInit ==
    /\ ClientInit /\ callers = {} /\ observed = FALSE /\ tlog = NoLog /\ CoordInit
    /\ d_api = {} /\ d_entity = "" /\ d_idx = 0 /\ d_pc = "idle" /\ d_calls = <<>>
    /\ d_result = "none"
    /\ dev_payload = NoPayload /\ dev_out = <<>>
    /\ raw \in RawStates /\ normalized = NoNormalized /\ fn_done = FALSE
    /\ FlowIdle
StateNext == ExtractStateCall /\ UNCHANGED <<apiVars, coordVars>>
StateSpec == StateInit /\ [][StateNext]_vars

\* _extract_state run on a raw state object, and run again on the same
\* object at any later time.
RepeatSamples ==
    {r \in RawStates : r.root \in {AllNull, [f \in Fields |-> JSeven]}}
RepeatInit ==
    /\ ClientInit /\ callers = {} /\ observed = FALSE /\ tlog = NoLog /\ CoordInit
    /\ d_api = {} /\ d_entity = "" /\ d_idx = 0 /\ d_pc = "idle" /\ d_calls = <<>>
    /\ d_result = "none"
    /\ dev_payload = NoPayload /\ dev_out = <<>>
    /\ raw \in RepeatSamples /\ normalized = NoNormalized /\ fn_done = FALSE
    /\ FlowIdle
RepeatNext ==
    \/ ExtractStateCall /\ UNCHANGED <<apiVars, coordVars>>
    \/ ExtractStateAgain /\ UNCHANGED <<apiVars, coordVars>>
    \/ Tick /\ UNCHANGED <<coordVars, entityVars>>
RepeatSpec == RepeatInit /\ [][RepeatNext]_vars

\* The re-authentication step on any stored entry, with any password and any
\* outcome of the API calls.
ReauthInit ==
    /\ ClientInit /\ callers = {} /\ observed = FALSE /\ tlog = NoLog /\ CoordInit
    /\ d_api = {} /\ d_entity = "" /\ d_idx = 0 /\ d_pc = "idle" /\ d_calls = <<>>
    /\ d_result = "none"
    /\ dev_payload = NoPayload /\ dev_out = <<>>
    /\ raw = NoRaw /\ normalized = NoNormalized /\ fn_done = FALSE
    /\ entry \in ConfigEntries
    /\ flow \in {[NoFlow EXCEPT !.found = b, !.data0 = entry.data] : b \in BOOLEAN}
ReauthNext ==
    \/ (\E user_input \in {"", "pw"} : ReauthConfirm(user_input))
          /\ UNCHANGED <<apiVars, coordVars, entityOnlyVars>>
    \/ (\E o \in ReauthOutcomes, tok \in TokenPayloads, e \in ApiEndpoints(entry.data) :
            RefreshResult(o, IF o = "ok" THEN tok ELSE NoTokens, e))
          /\ UNCHANGED <<apiVars, coordVars, entityOnlyVars>>
    \/ (\E o \in ReauthOutcomes, tok \in TokenPayloads, e \in ApiEndpoints(entry.data) :
            LoginResult(o, IF o = "ok" THEN tok ELSE NoTokens, e))
          /\ UNCHANGED <<apiVars, coordVars, entityOnlyVars>>
    \/ ReloadDone /\ UNCHANGED <<apiVars, coordVars, entityOnlyVars>>
    \/ Tick /\ UNCHANGED <<coordVars, entityVars>>
ReauthSpec == ReauthInit /\ [][ReauthNext]_vars


\* ------------------------------------------------------------------- claims
IsSuccess(s) == s \in 1..399
IsAuthStatus(s) == s \in {401, 403}
IsOtherError(s) == s >= 400 /\ s \notin {401, 403}
\* The JSON value of a body text: an empty body is the empty object.
ExpectedJson(text) == IF text = "" THEN "{}" ELSE text

\* C1: a REST call whose first data request is answered 401/403 returns the
\* parsed body of the second response when that one is answered below 400,
\* and fails with HarviaAuthError when the second is answered 401/403 too.
C1_RetryReturnsSecondBody ==
    \A t \in Tasks :
        pc[t] = "done" /\ IsAuthStatus(h[t].status0) =>
            /\ IsSuccess(h[t].status1) /\ IsJson(h[t].text1)
                  => result[t] = Ok(ExpectedJson(h[t].text1))
            /\ IsAuthStatus(h[t].status1) => result[t] = HarviaAuthError

C1_Witness ==
    \E t \in Tasks :
        /\ pc[t] = "done" /\ h[t].status0 = 401 /\ h[t].status1 = 200
        /\ h[t].force /\ h[t].text1 = "A" /\ result[t] = Ok("A")

\* C2: at most one authenticate or refresh HTTP request is in flight at any
\* time, whatever the interleaving of concurrent operations on the client.
AuthInFlight == {t \in Tasks : pc[t] \in {"auth_wait", "refresh_wait"}}
C2_OneAuthInFlight == Cardinality(AuthInFlight) <= 1

\* C3 (as claimed): _ensure_valid_token authenticates when no id token exists,
\* calls _refresh exactly once when forced or stale and never otherwise, logs
\* in again only when that refresh failed, returns only with an id token,
\* and fails with HarviaAuthError whenever no id token exists afterward.
EnsureReturned(t) ==
    \/ pc[t] = "rc_send"
    \/ pc[t] = "done" /\ ended[t] = "ens" /\ result[t] = Ok("")
C3_Protocol ==
    \A t \in Tasks :
        LET x == h[t] IN
        /\ phase[t] = "ens"
           /\ pc[t] \in {"auth_wait", "init_tok", "ens_check", "refresh_wait", "ens_final"}
              => (x.initauth = 1 <=> ~x.hadtoken) /\ x.initauth <= 1
        /\ phase[t] = "ens" /\ x.checked
              => /\ x.nrefresh = (IF x.force \/ x.stale THEN 1 ELSE 0)
                 /\ x.refreshreq <= x.nrefresh
                 /\ x.authreq <= 1
                 /\ x.authreq = 1 => x.nrefresh = 1 /\ ~x.refreshok
                 /\ ~x.force /\ ~x.stale => x.refreshreq = 0 /\ x.authreq = 0
        /\ EnsureReturned(t)
              => /\ x.checked
                 /\ tokens.id_token # None
                 /\ x.nrefresh = 1 /\ ~x.refreshok => x.authreq = 1

C4_AuthErrorAbortsCycle ==
    g.auth_seen => c_pc = "idle" /\ c_result = "ConfigEntryAuthFailed"

C4_Witness ==
    /\ g.auth_seen /\ g.list_ok /\ c_result = "ConfigEntryAuthFailed"
    /\ Len(c_devices) = 2 /\ c_i = 1

\* C5: once the device list is fetched, errors other than auth errors never
\* abort the cycle: it returns a snapshot whose device map holds every listed
\* device and in which every device whose fetch succeeded has this cycle's
\* state and telemetry.
C5_PartialFailureTolerated ==
    /\ c_pc = "idle" /\ c_result # "none" /\ g.list_ok /\ ~g.auth_seen
          => c_result = "snapshot"
    /\ c_result = "snapshot"
          => /\ devices = Ids(c_devices)
             /\ \A d \in g.ok_state : states[d] = cycle
             /\ \A d \in g.ok_latest : latest[d] = cycle

C5_Witness ==
    /\ c_result = "snapshot" /\ devices = {"A", "B"}
    /\ "B" \in g.bad_state /\ "A" \in g.ok_state /\ states["A"] = cycle
    /\ "A" \in g.ok_latest /\ latest["A"] = cycle

\* C6: a device whose state (or telemetry) fetch failed with an error other
\* than an auth error keeps the entry the last successful cycle stored.
C6_StaleEntryKept ==
    c_result = "snapshot"
        => /\ \A d \in g.bad_state : states[d] = g.prev_states[d]
           /\ \A d \in g.bad_latest : latest[d] = g.prev_latest[d]

\* C7: whenever a reader can run, the device map, the state map and the
\* telemetry map it sees were assigned by the same cycle.
C7_NoPartialSnapshot == devices_cycle = states_cycle

\* C8: a REST call sends at most two data requests, the second only after a
\* 401/403 answer to the first, and it always ends with a value or an error.
C8_Bounded ==
    \A t \in Tasks :
        /\ h[t].ndata <= 2
        /\ h[t].ndata = 2 => IsAuthStatus(h[t].status0)
        /\ h[t].status1 # -1 => pc[t] = "done"
        /\ pc[t] = "done" => result[t].kind # "none"
\* An operation is under way on the client (FairSpec has one caller).
Busy == \E t \in Tasks : pc[t] \notin {"idle", "done"}
C8_AtMostOneRetry ==
    /\ []C8_Bounded
    /\ Busy ~> ~Busy

C8_Witness ==
    \E t \in Tasks : pc[t] = "done" /\ h[t].ndata = 2 /\ h[t].status1 = 500

\* C9: on the first attempt, with an id token stored and not stale, no login or
\* refresh request precedes the data request; on the second attempt _refresh
\* is called, and a refresh request, or a login request if the refresh failed,
\* precedes the data request.
C9_ForcedOnSecondAttemptOnly ==
    \A t \in Tasks :
        pc[t] = "data_wait" =>
            /\ attempt[t] = 0 /\ h[t].hadtoken /\ ~h[t].stale
                  => h[t].nrefresh = 0 /\ h[t].refreshreq = 0
                     /\ h[t].authreq = 0 /\ h[t].initauth = 0
            /\ attempt[t] = 1
                  => /\ h[t].nrefresh = 1
                     /\ h[t].refreshreq + h[t].authreq >= 1
                     /\ h[t].authreq >= 1 => ~h[t].refreshok

C9_Witness ==
    \E t \in Tasks :
        /\ pc[t] = "data_wait" /\ attempt[t] = 1
        /\ ~h[t].stale /\ h[t].refreshreq = 1 /\ h[t].authreq = 0

\* C10: a data response of 400 or above other than 401/403, on either attempt,
\* ends the call at once with RuntimeError carrying that status and body
\* text: no retry, no forced token check, never HarviaAuthError.
C10_OtherErrorFailsAtOnce ==
    \A t \in Tasks :
        /\ IsOtherError(h[t].status0)
              => /\ pc[t] = "done"
                 /\ result[t] = RuntimeError(h[t].status0, h[t].text0)
                 /\ h[t].ndata = 1 /\ h[t].status1 = -1 /\ ~h[t].force
        /\ IsOtherError(h[t].status1)
              => /\ pc[t] = "done"
                 /\ result[t] = RuntimeError(h[t].status1, h[t].text1)
                 /\ h[t].ndata = 2

C10_Witness ==
    \E t \in Tasks :
        /\ pc[t] = "done" /\ h[t].status0 = 403 /\ h[t].status1 = 500
        /\ result[t] = RuntimeError(500, "A")

\* C11: a REST call with a missing base URL sends no request at all (no
\* discovery, login, refresh or data request) before it fails.
AwaitingResponse == {"ld_wait", "auth_wait", "refresh_wait", "data_wait"}
C11_MissingBaseNoRequest ==
    \A t \in Tasks :
        op[t] = "rest_call" /\ base[t] = "" => pc[t] \notin AwaitingResponse

\* C12: a REST call that queued for the lock while the holder refreshed the
\* token sends no refresh request of its own while that token is not stale
\* (of two calls answered 401/403, only the first one refreshes).
C12_NoRedundantRefresh ==
    \A t \in Tasks :
        ~(/\ op[t] = "rest_call" /\ waited[t] /\ pc[t] = "refresh_wait"
          /\ ~TokenNeedsRefresh(tokens, now))

\* The last answer to a token request was a login / refresh answered below 400.
LoginAnswered == tlog.kind = "login" /\ IsSuccess(tlog.status)
RefreshAnswered == tlog.kind = "refresh" /\ IsSuccess(tlog.status)

\* C13: after a login answered 2xx without an id token the client holds no id
\* token (a previously stored one is not kept), and the operation that
\* logged in fails with HarviaAuthError.
C13_LoginWithoutIdTokenFails ==
    LoginAnswered /\ tlog.shape = "no_id"
        => /\ tokens.id_token = None
           /\ \A t \in Tasks :
                 pc[t] # "idle"
                    => \/ pc[t] \in {"init_tok", "ens_final"}
                       \/ pc[t] = "done" /\ result[t] = HarviaAuthError

\* C14: after a login or refresh answered 2xx with an id token, the stored id
\* token is the one of that answer, expires_at is the time of the answer plus
\* its expiresIn, and expires_at is not the value the earlier token had.
C14_ExpiryRecomputed ==
    (LoginAnswered \/ RefreshAnswered) /\ tlog.shape # "no_id"
        => /\ tokens.id_token = tlog.serial
           /\ tlog.shape # "no_expiry" => tokens.expires_at = tlog.at + ExpiresIn
           /\ tlog.shape = "no_expiry" /\ tlog.prev.id_token # None
              /\ tlog.prev.expires_at # None
                 => tokens.expires_at # tlog.prev.expires_at

\* C15: a refresh answered without a refresh token leaves the stored refresh
\* token as it was, a login answered without one clears it, and an answer
\* that carries one replaces it in both cases.
C15_RefreshTokenKeptOrCleared ==
    /\ RefreshAnswered /\ tlog.shape = "no_refresh"
          => tokens.refresh_token = tlog.prev.refresh_token
    /\ LoginAnswered /\ tlog.shape = "no_refresh"
          => tokens.refresh_token = None
    /\ (LoginAnswered \/ RefreshAnswered) /\ tlog.shape # "no_refresh"
          => tokens.refresh_token = tlog.serial

C15_Witness ==
    /\ RefreshAnswered /\ tlog.shape = "no_refresh"
    /\ tlog.prev.refresh_token # None
    /\ tokens.refresh_token = tlog.prev.refresh_token
    /\ tokens.id_token = tlog.serial

\* C16: a refresh answered 400 or above (401, 403 or any other) does not raise:
\* the token state is what it was and the login request follows.
C16_RefreshFailureFallsBack ==
    tlog.kind = "refresh" /\ tlog.status >= 400
        => /\ tokens = tlog.prev
           /\ \A t \in Tasks :
                 pc[t] # "idle"
                    => /\ pc[t] = "auth_wait" /\ authctx[t] = "ens"
                       /\ h[t].authreq = 1 /\ ~h[t].refreshok

C16_Witness ==
    /\ tlog.kind = "refresh" /\ tlog.status = 401
    /\ tokens.id_token # None /\ tokens = tlog.prev
    /\ \E t \in Tasks : pc[t] = "auth_wait" /\ h[t].refreshreq = 1

\* C17: with a token issued at time t with expiry expiresIn, _token_needs_refresh
\* is false at every time before t + expiresIn - 60 and true from then on;
\* it is false right after issuance.
TokenIssued ==
    (LoginAnswered \/ RefreshAnswered) /\ tlog.shape \in {"full", "no_refresh"}
C17_NeedsRefreshThreshold ==
    /\ tokens.id_token # None /\ tokens.expires_at # None
          => (TokenNeedsRefresh(tokens, now) <=> now >= tokens.expires_at - 60)
    /\ TokenIssued
          => /\ TokenNeedsRefresh(tokens, now) <=> now >= tlog.at + ExpiresIn - 60
             /\ now = tlog.at => ~TokenNeedsRefresh(tokens, now)
    /\ \A t \in Tasks :
          pc[t] = "ens_final" /\ h[t].checked /\ h[t].nrefresh = 0
          /\ tokens.expires_at # None
             => now < tokens.expires_at - 60

C17_Witness ==
    /\ TokenIssued /\ now = tlog.at + ExpiresIn - 60 /\ now > tlog.at
    /\ TokenNeedsRefresh(tokens, now)

\* C18: every login or refresh answered 2xx with an id token calls the
\* registered token listener exactly once, and a failed one never does.
C18_ListenerNotified ==
    /\ (LoginAnswered \/ RefreshAnswered) /\ tlog.shape # "no_id" => tlog.callbacks = 1
    /\ tlog.kind \in {"login", "refresh"} /\ ~IsSuccess(tlog.status) => tlog.callbacks = 0

\* C19: once the endpoints are loaded, no operation sends a discovery request
\* and the generics, device and data base URLs never change.
C19_EndpointsLoadedOnce ==
    [][endpoints_loaded
          => /\ UNCHANGED endpointVars
             /\ \A t \in Tasks : pc'[t] # "ld_wait"]_vars

C19_Witness ==
    /\ endpoints_loaded
    /\ \E t \in Tasks : op[t] = "get_devices" /\ phase[t] = "wrap" /\ pc[t] = "init_chk"
                        /\ tokens.id_token # None

\* C20: endpoint resolution never completes with one of the three bases
\* generics, device and data missing.
C20_AllBasesRequired ==
    endpoints_loaded
        => rest_generics_base # "" /\ rest_device_base # "" /\ rest_data_base # ""

\* The services a discovery document contains, at either nesting depth.
ServicesIn(doc) == doc.RestApi \cup doc.env

\* C21: whenever a 2xx discovery answer carried a document that contains the
\* three required services, directly under endpoints.RestApi or under an
\* intermediate per-environment key, the operation that loaded it did not
\* fail in resolution and the client holds the same three bases.
C21_NestingIndependent ==
    \A t \in Tasks :
        h[t].doc # NoDoc /\ Services \subseteq ServicesIn(h[t].doc)
            => /\ endpoints_loaded
               /\ rest_generics_base = "generics"
               /\ rest_device_base = "device"
               /\ rest_data_base = "data"
               /\ pc[t] = "done" => result[t] # RuntimeError(0, "Endpoints parsing failed")

\* C22: a cycle fetches the device list and the per-device states only if
\* the device list was never fetched before or device_poll_interval_s has
\* elapsed since its last fetch, and fetches telemetry only if it was never
\* fetched before or data_poll_interval_s has elapsed since its last fetch.
C22_CadencesRespected ==
    /\ c_pc \in {"list_wait", "state_wait"}
          => \/ g.prev_list_at = -1
             \/ g.list_req_at - g.prev_list_at >= device_poll_interval_s
    /\ c_pc = "latest_wait"
          => \/ g.prev_latest_at = -1
             \/ g.latest_req_at - g.prev_latest_at >= data_poll_interval_s

\* C23: once a first cycle has run, the scheduler keeps starting cycles on
\* its own: after every cycle but the last one the bound allows, a further
\* cycle eventually starts, whether or not a refresh is requested from outside.
C23_PeriodicCycles ==
    \A n \in 1..(MaxCycles - 1) : (cycle = n) ~> (cycle > n)

\* C24: the lookup with the serial number is issued exactly when the lookup
\* with the primary id failed with a 403-class error and the device carries a
\* serial number that differs from its id; no device and kind gets more than
\* two lookups in a cycle.
C24_FallbackOn403Only ==
    /\ g.first # ""
          => (g.retried <=> /\ g.first = "HarviaApiError403"
                            /\ Len(TryIds(g.first_dev)) = 2)
    /\ g.lookups <= 2

\* The cycle ended at the device-list fetch, which failed by something other
\* than an auth error.
ListFetchFailedSoft == c_pc = "idle" /\ cycle >= 1 /\ ~g.list_ok /\ ~g.auth_seen

\* C25: when the device-list fetch of a cycle fails by a non-auth error, the
\* cycle ends with UpdateFailed, no state or telemetry lookup was issued, and
\* the device, state and telemetry maps are those the cycle found.
C25_ListFailureIsSoft ==
    ListFetchFailedSoft
        => /\ c_result = "UpdateFailed"
           /\ g.lookups = 0 /\ g.first = "" /\ g.latest_req_at = -1
           /\ g.ok_state = {} /\ g.ok_latest = {} /\ g.bad_state = {} /\ g.bad_latest = {}
           /\ devices_cycle < cycle /\ states_cycle < cycle
           /\ states = g.prev_states /\ latest = g.prev_latest

\* A cycle that found a device with a state and a telemetry entry ended that way.
C25_Witness ==
    /\ ListFetchFailedSoft /\ c_result = "UpdateFailed"
    /\ devices # {}
    /\ \E d \in DeviceIds : states[d] # 0 /\ latest[d] # 0

\* C26: an operation of the client one of whose requests (discovery, login,
\* refresh, data) got no answer ends at once with a transport error: the
\* lock is free again, nothing is latched (after a discovery timeout the
\* endpoints still count as not loaded, so the next operation asks again),
\* and the coordinator turns that error into UpdateFailed for the device
\* list and into a skipped or retried lookup for a state or telemetry
\* fetch, never into ConfigEntryAuthFailed.
C26_TimeoutIsSoft ==
    \A t \in Tasks :
        h[t].timedout # ""
            => /\ pc[t] = "done" /\ result[t] = TransportError
               /\ auth_lock # t /\ running # t
               /\ h[t].timedout = "discovery" => ~endpoints_loaded
               /\ ListFailure(OutcomeOf(result[t])) = "UpdateFailed"
               /\ \A more \in BOOLEAN :
                     TryOutcome(OutcomeOf(result[t]), more) \in {"next", "none"}

\* A rest call whose forced refresh after a 401 got no answer.
C26_Witness ==
    \E t \in Tasks :
        /\ pc[t] = "done" /\ h[t].timedout = "refresh" /\ h[t].status0 = 401
        /\ result[t] = TransportError

\* C27: at no time are two data requests of the client in flight: of the
\* tasks that call the client (a cycle of the coordinator, a command
\* dispatched by an entity) at most one awaits the answer to its data request.
C27_OneDataRequestInFlight ==
    Cardinality({t \in Tasks : pc[t] = "data_wait"}) <= 1

\* The candidates the dispatch has called, and the place of a method in the
\* fixed order.
Tried == {d_calls[k] : k \in 1..Len(d_calls)}
OrderOf(m) == CHOOSE k \in 1..Len(Candidates) : Candidates[k] = m

\* C28: a finished dispatch has called candidates the API has, in the fixed
\* order; it succeeded by its last call, or failed after every candidate
\* the API has was called and failed.
C28_TriesCandidatesInOrder ==
    d_pc = "done"
        => /\ Tried \subseteq d_api
           /\ \A j, k \in 1..Len(d_calls) : j < k => OrderOf(d_calls[j]) < OrderOf(d_calls[k])
           /\ d_result = "ok" => d_calls # <<>>
           /\ d_result # "ok" => d_api \subseteq Tried

\* The ids the entries of the body should give, by the priority id,
\* deviceId, name; "" for an entry that is no object or has none of them.
ExpectedId(item) ==
    IF item.kind # "object" THEN ""
    ELSE IF item.id \notin {JNull, JEmptyStr, JZero} THEN PyStr(item.id)
    ELSE IF item.deviceId \notin {JNull, JEmptyStr, JZero} THEN PyStr(item.deviceId)
    ELSE IF item.name \notin {JNull, JEmptyStr, JZero} THEN PyStr(item.name)
    ELSE ""
BodyIsList == \/ dev_payload.top = "list"
              \/ dev_payload.top = "dict" /\ dev_payload.devices = "list"
UsableEntries == {k \in 1..Len(dev_payload.items) : ExpectedId(dev_payload.items[k]) # ""}
Rank(k) == Cardinality({j \in UsableEntries : j <= k})

\* C29: get_devices returns no device for a body that holds no list, and
\* otherwise one device per entry with a usable id, in the order of the
\* list, whose id is the entry's id, else its deviceId, else its name.
C29_OneDevicePerUsableEntry ==
    fn_done
        => IF ~BodyIsList THEN dev_out = <<>>
           ELSE /\ Len(dev_out) = Cardinality(UsableEntries)
                /\ \A k \in UsableEntries :
                      dev_out[Rank(k)].id = ExpectedId(dev_payload.items[k])

\* A list of two entries: the first has only a name next to a falsy id, the
\* second has all three; both are returned, in that order.
C29_Witness ==
    /\ fn_done /\ BodyIsList /\ Len(dev_payload.items) = 2
    /\ dev_payload.items[1].id = JEmptyStr /\ dev_payload.items[1].deviceId = JNull
    /\ dev_payload.items[1].name = JStrName
    /\ dev_payload.items[2].id = JStrId /\ dev_payload.items[2].deviceId = JStrDev
    /\ Len(dev_out) = 2 /\ dev_out[1].id = "Sauna" /\ dev_out[2].id = "id-1"

\* The entry of state.profiles the active profile names, if activeProfile
\* coerces to an integer and its string form is a key of an object there.
Coerced == ApKey(raw.activeProfile)
HasActiveEntry ==
    /\ Coerced \in ProfileKeys
    /\ raw.profiles.shape = "dict"
    /\ raw.profiles.entries[Coerced].kind = "dict"

\* C30: every target or desired field of the normalized state is the active
\* profile's value when there is a matching profile entry that carries the
\* field (also when that value is 0 or false), and the root value otherwise.
C30_ActiveProfilePrecedence ==
    fn_done
        => \A f \in Fields :
              normalized.target[f] =
                 IF HasActiveEntry /\ raw.profiles.entries[Coerced].f[f] # JNull
                 THEN raw.profiles.entries[Coerced].f[f]
                 ELSE raw.root[f]

\* activeProfile is the string "1"; profile 1 carries a target temperature
\* of 0 and no target humidity, the root carries both.
C30_Witness ==
    /\ fn_done /\ raw.activeProfile = JStrOne /\ HasActiveEntry
    /\ raw.profiles.entries["1"].f["targetTemp"] = JZero
    /\ raw.profiles.entries["1"].f["targetHum"] = JNull
    /\ raw.root["targetTemp"] = JSeven /\ raw.root["targetHum"] = JSeven
    /\ normalized.target["targetTemp"] = JZero
    /\ normalized.target["targetHum"] = JSeven

\* C31: the normalized heater_state and steamer_state are the root state's
\* heater.state and steamer.state, whatever activeProfile names and whatever
\* the profiles carry.
C31_ActualStateFromRoot ==
    fn_done
        => /\ normalized.heater_state = raw.heater_state
           /\ normalized.steamer_state = raw.steamer_state

\* The active profile carries a state of its own and the root has no
\* heater.state: the normalized heater_state is None.
C31_Witness ==
    /\ fn_done /\ HasActiveEntry
    /\ raw.profiles.entries[Coerced].state = JOne
    /\ raw.heater_state = JNull /\ normalized.heater_state = JNull

\* C32: every object under a key of state.profiles is kept in the normalized
\* profiles under the same key with its fields, whether or not it is the
\* active one, and no other key appears; the normalized active_profile is
\* the raw one, so the index N an entity sent names the entry under str(N).
C32_AllProfilesRetained ==
    fn_done /\ raw.profiles.shape = "dict"
        => /\ \A k \in ProfileKeys :
                 IF raw.profiles.entries[k].kind = "dict"
                 THEN /\ normalized.profiles[k].kind = "dict"
                      /\ normalized.profiles[k].f = raw.profiles.entries[k].f
                 ELSE normalized.profiles[k].kind = "absent"
           /\ normalized.active_profile = raw.activeProfile
           /\ raw.activeProfile \in {JOne, JTwo}
                 => /\ PyStr(normalized.active_profile) \in ProfileKeys
                    /\ normalized.profiles[PyStr(normalized.active_profile)].kind = "dict"
                          <=> HasActiveEntry

\* Profile 1 is active and carries other values than profile 2: both are
\* kept, each under its key.
C32_Witness ==
    /\ fn_done /\ raw.activeProfile = JOne /\ HasActiveEntry
    /\ raw.profiles.entries["1"].f["targetTemp"] = JZero
    /\ normalized.profiles["1"].f["targetTemp"] = JZero
    /\ normalized.profiles["2"].kind = "dict"
    /\ normalized.profiles["2"].f["targetTemp"] = JOne

LastDataStatus(t) == IF h[t].status1 # -1 THEN h[t].status1 ELSE h[t].status0

\* C34: an operation of the client whose data request the server answered
\* with 403 ends in a way the coordinator's lookup does not re-raise (the
\* cycle goes on to the next id or device), and an operation ends in a way the
\* lookup re-raises as ConfigEntryAuthFailed only if the server answered 401.
C34_ForbiddenIsNotFatal ==
    \A t \in Tasks :
        pc[t] = "done" /\ h[t].ndata >= 1
            => /\ LastDataStatus(t) = 403
                  => \A more \in BOOLEAN :
                        TryOutcome(OutcomeOf(result[t]), more) # "raise"
               /\ (\E more \in BOOLEAN : TryOutcome(OutcomeOf(result[t]), more) = "raise")
                  => 401 \in {h[t].status0, h[t].status1, h[t].authstatus}

\* The keys of self._states and of self._latest.
StateKeys == {d \in DeviceIds : states[d] # 0}
LatestKeys == {d \in DeviceIds : latest[d] # 0}

\* C35: in every state (a reader runs whenever the cycle awaits, and between
\* cycles) the devices that have a state entry or a telemetry entry are
\* devices of the device map.
C35_MapsWithinDevices ==
    StateKeys \subseteq devices /\ LatestKeys \subseteq devices

\* C36: every data request of an operation was sent with the endpoints
\* loaded and with an id token as bearer, which is the stored id token while
\* the request is awaited (one caller); the bearer of a second attempt is not
\* the bearer the first attempt was rejected with.
C36_FreshBearerOnRetry ==
    \A t \in Tasks :
        h[t].ndata >= 1
            => /\ endpoints_loaded
               /\ h[t].bearer # None /\ h[t].bearer0 # None
               /\ pc[t] = "data_wait" => h[t].bearer = tokens.id_token
               /\ h[t].ndata = 2 => h[t].bearer # h[t].bearer0

\* An id token is stored and its expiry is unknown.
UnknownExpiry == tokens.id_token # None /\ tokens.expires_at = None

\* C37: while the stored id token has no known expiry, a token check without
\* force sends neither a refresh nor an authenticate request, whatever the
\* clock shows, and the id token is replaced only within a forced token check,
\* which in rest_call follows a 401/403 of the first attempt.
C37_UnknownExpiryNeverStale ==
    [][UnknownExpiry
         => /\ \A t \in Tasks :
                  pc[t] = "ens_check" /\ ~force[t]
                      => /\ pc'[t] = "ens_final"
                         /\ h'[t].refreshreq = 0 /\ h'[t].authreq = 0
                         /\ ~h'[t].stale
                         /\ tokens' = tokens
            /\ tokens'.id_token # tokens.id_token
                  => \E t \in Tasks :
                        /\ pc[t] \in {"refresh_wait", "auth_wait"}
                        /\ force[t]
                        /\ op[t] = "rest_call"
                              => attempt[t] = 1 /\ h[t].status0 \in {401, 403}]_vars
\* An unforced rest_call passed its token check at the latest clock value with
\* a token of unknown expiry that the operation did not obtain itself, sent no
\* token request and got its data answer.
C37_Witness ==
    /\ UnknownExpiry /\ now = MaxTime
    /\ \E t \in Tasks :
          /\ pc[t] = "done" /\ ended[t] = "rc"
          /\ h[t].checked /\ ~h[t].force /\ ~h[t].stale
          /\ h[t].authstatus = -1 /\ h[t].refreshreq = 0 /\ h[t].authreq = 0
          /\ h[t].ndata = 1 /\ h[t].status0 = 200

\* C38: when _ensure_valid_token finds force set or the token stale and no
\* refresh token is stored, _refresh returns False without a request (no
\* refresh request is sent, the tokens are untouched) and the login request is
\* sent once: after its answer the token check sends no further token request.
C38_NoRefreshTokenLogsInOnce ==
    [][\A t \in Tasks :
         /\ /\ pc[t] = "ens_check"
            /\ NeedsRefreshCall(force[t], tokens, now)
            /\ tokens.refresh_token = None
            => /\ pc'[t] = "auth_wait" /\ authctx'[t] = "ens"
               /\ h'[t].nrefresh = h[t].nrefresh + 1
               /\ h'[t].refreshreq = h[t].refreshreq
               /\ h'[t].authreq = h[t].authreq + 1
               /\ tokens' = tokens
         /\ pc[t] = "auth_wait" /\ authctx[t] = "ens"
            => /\ pc'[t] \in {"auth_wait", "ens_final", "done"}
               /\ h'[t].refreshreq = h[t].refreshreq
               /\ h'[t].authreq = h[t].authreq]_vars
\* A forced token check without a refresh token sent no refresh request and
\* one login request, whose answer brought a token, and the operation ended.
C38_Witness ==
    \E t \in Tasks :
        /\ pc[t] = "done" /\ ended[t] = "ens"
        /\ h[t].force /\ h[t].checked
        /\ h[t].nrefresh = 1 /\ h[t].refreshreq = 0 /\ h[t].authreq = 1
        /\ h[t].authstatus = 200 /\ h[t].initauth = 0
        /\ tokens.id_token # None

\* The entry is as it was when the step was entered: never updated, never
\* reloaded.
EntryUntouched == entry.data = flow.data0 /\ entry.updates = 0 /\ entry.reloads = 0
\* The step called login.
LoginCalled == \E k \in 1..Len(flow.calls) : flow.calls[k] = "login"
\* One of the two calls returned a token payload.
ReauthSucceeded == flow.refreshed = "ok" \/ flow.logged_in = "ok"

\* C39: the re-authentication step calls refresh first and login only after
\* refresh raised the authentication error; when both raise it, or when either
\* call fails otherwise, the form is shown again and the entry's data is as it
\* was and the entry is not reloaded; the entry is updated only after a call
\* returned tokens, with the tokens of that payload, and it is reloaded only
\* after that update.
C39_ReauthUpdatesOnlyOnSuccess ==
    /\ flow.calls # <<>> => flow.calls[1] = "refresh"
    /\ LoginCalled => flow.calls[2] = "login" /\ flow.refreshed = "HarviaAuthError"
    /\ flow.refreshed \in {"ok", "HarviaApiError", "Exception"} => ~LoginCalled
    /\ flow.refreshed = "HarviaAuthError" /\ flow.logged_in = "HarviaAuthError"
          => EntryUntouched /\ flow.pc = "form" /\ flow.errors = "invalid_auth"
    /\ \/ flow.refreshed \in {"HarviaApiError", "Exception"}
       \/ flow.logged_in \in {"HarviaApiError", "Exception"}
          => EntryUntouched /\ flow.pc = "form" /\ flow.errors = "unknown"
    /\ flow.pc \in {"idle", "form", "refresh_wait", "login_wait"} \/ ~ReauthSucceeded
          => EntryUntouched
    /\ ~EntryUntouched
          => /\ ReauthSucceeded /\ entry.updates = 1
             /\ Truthy(flow.tokens.idToken)
                   => entry.data.id_token = PyStr(flow.tokens.idToken)
             /\ Truthy(flow.tokens.accessToken)
                   => entry.data.access_token = PyStr(flow.tokens.accessToken)
             /\ Truthy(flow.tokens.refreshToken)
                   => entry.data.refresh_token = PyStr(flow.tokens.refreshToken)
             /\ flow.pc = "reload_wait" => entry.reloads = 0
             /\ flow.pc = "done"
                   => entry.reloads = 1 /\ flow.result = "abort:reauth_successful"
    /\ flow.result = "abort:reauth_successful"
          => /\ entry.updates = 1 /\ entry.reloads = 1
             /\ flow.calls[Len(flow.calls) - 1] = "update"
             /\ flow.calls[Len(flow.calls)] = "reload"
\* Refresh was rejected, the login returned a full payload, and the entry was
\* updated with its tokens at a later time and reloaded.
C39_Witness ==
    /\ flow.result = "abort:reauth_successful"
    /\ flow.calls = <<"refresh", "login", "update", "reload">>
    /\ flow.refreshed = "HarviaAuthError" /\ flow.logged_in = "ok"
    /\ flow.tokens.idToken = JStrId /\ entry.data.id_token = "id-1"
    /\ flow.data0.id_token = "id-0"
    /\ entry.data.token_obtained_at > 0
    /\ entry.reloads = 1

====
